---- MODULE Spec2Model ----
(***************************************************************************)
(* A model of playlist-manager.py: the song collection (songs.json), the   *)
(* order collection (playlists.json), the files on disk, the staged order  *)
(* map of the Order tab (current_changes) and the handlers that change     *)
(* them.  File names are sequences of one-character strings, so that the   *)
(* "NNN name" convention is computed as the code computes it.  A song id   *)
(* "ID%04d" is modelled by its number.                                     *)
(***************************************************************************)
EXTENDS Integers, Sequences, FiniteSets, TLC

VARIABLES
    songs,            \* songs.json: a sequence of song records
    playlists,        \* playlists.json: a sequence of [folder_path, orders]
    files,            \* the file system: path -> [src, tag]
    current_folder,   \* PlaylistManagerUI.current_folder (NoFolder = None)
    current_changes,  \* OrderTab.current_changes: song id -> staged order
    nops,             \* number of handlers run so far (bounded by MaxOps)
    last,             \* the handler that ran last, with its inputs
    shInput,          \* Shuffler specification: the list given to randomize_playlist
    shOutput,         \* Shuffler specification: the list it returned
    idSet,            \* allocator specification: the ids of songs.json
    idOut,            \* allocator specification: the id generate_song_id returned
    gapSongs,         \* gap filler specification: the songs given to find_next_available_order
    gapMax,           \* gap filler specification: its current_max_order
    gapOut,           \* gap filler specification: the number it returned
    codecName,        \* codec specification: a file name
    codecOut          \* codec specification: the name formatted from its parts

vars == <<songs, playlists, files, current_folder, current_changes, nops, last,
          shInput, shOutput, idSet, idOut,
                   gapSongs, gapMax, gapOut, codecName, codecOut>>

----------------------------------------------------------------------------
(* Bounds of the model *)

MaxOps == 4
MaxRecords == 4
MaxShuffle == 3
MaxIds == 5
MaxGap == 3
MaxName == 5

----------------------------------------------------------------------------
(* Program constants *)

DISABLED == -1
DefaultWeight == 2
IdSpace == 10000
ShiftMax == 2

NoFolder == <<>>
NoId == <<"N", "o", "n", "e">>     \* Python's None where an id is expected
NoCall == <<>>    \* generate_song_id has not returned yet
NoOrder == -2     \* "the key is absent" in dict.get / next(..., None)

----------------------------------------------------------------------------
(* OrderCodec: ORDER_PATTERN and the f"{order:03d} {name}" format *)

Digits == <<"0", "1", "2", "3", "4", "5", "6", "7", "8", "9">>
DigitChars == {Digits[i] : i \in 1..10}

\* one character: ARABIC-INDIC DIGIT ONE, a decimal digit that is not ASCII
ArabicOne == "U+0661"

\* \d and \s of a str pattern: any decimal digit, any whitespace
ReDigits == DigitChars \cup {ArabicOne}
Whitespace == {" ", "\t", "\n"}

\* int(c) of one digit character
DigitVal(c) ==
    IF c = ArabicOne THEN 1 ELSE (CHOOSE i \in 1..10 : Digits[i] = c) - 1

RECURSIVE DecStr(_)
DecStr(n) ==
    IF n < 10 THEN <<Digits[n + 1]>>
    ELSE Append(DecStr(n \div 10), Digits[(n % 10) + 1])

\* f"{n:03d}": at least three digits, zero padded
Pad3(n) ==
    LET d == DecStr(n)
    IN  IF Len(d) >= 3 THEN d ELSE [i \in 1..(3 - Len(d)) |-> "0"] \o d

\* f"{n:04d}"
Pad4(n) ==
    LET d == DecStr(n)
    IN  IF Len(d) >= 4 THEN d ELSE [i \in 1..(4 - Len(d)) |-> "0"] \o d

\* f"{ID_PREFIX}{i:04d}"
FormatId(i) == <<"I", "D">> \o Pad4(i)

\* a faulty variant of FormatName that does not pad the order; C25 must
\* tell it from the code
FormatNameUnpadded(order, base) == DecStr(order) \o <<" ">> \o base

\* f"{new_order:03d} {original_name}"
FormatName(order, base) == Pad3(order) \o <<" ">> \o base

\* the whitespace characters from position i on
RECURSIVE WsRun(_, _)
WsRun(name, i) ==
    IF i <= Len(name) /\ name[i] \in Whitespace
    THEN 1 + WsRun(name, i + 1)
    ELSE 0

\* the characters that "." matches from position i on: all but line breaks
RECURSIVE DotRun(_, _)
DotRun(name, i) ==
    IF i <= Len(name) /\ name[i] # "\n"
    THEN 1 + DotRun(name, i + 1)
    ELSE 0

\* (.+)$ at position i: one or more characters, then the end of the string
\* or the line break that ends it
MatchRest(name, i) ==
    LET n == DotRun(name, i)
    IN  /\ n >= 1
        /\ \/ i + n > Len(name)
           \/ i + n = Len(name) /\ name[Len(name)] = "\n"

NoMatch == [ok |-> FALSE, g1 |-> <<>>, g2 |-> <<>>]

\* ORDER_PATTERN.match(name) for ^(\d{3})\s+(.+)$ : \s+ is greedy and gives
\* back whitespace characters until (.+)$ matches what is left
OrderPatternMatch(name) ==
    IF Len(name) >= 3 /\ \A i \in 1..3 : name[i] \in ReDigits
    THEN LET ks == {k \in 1..WsRun(name, 4) : MatchRest(name, 4 + k)}
         IN  IF ks = {} THEN NoMatch
             ELSE LET k == CHOOSE x \in ks : \A y \in ks : y <= x
                  IN  [ok |-> TRUE, g1 |-> SubSeq(name, 1, 3),
                       g2 |-> SubSeq(name, 4 + k, 3 + k + DotRun(name, 4 + k))]
    ELSE NoMatch

\* int(match.group(1))
IntOf3(d) == 100 * DigitVal(d[1]) + 10 * DigitVal(d[2]) + DigitVal(d[3])

extract_order_number(filename) ==
    LET m == OrderPatternMatch(filename)
    IN  IF m.ok THEN IntOf3(m.g1) ELSE 0

\* match.group(2) if match else filename
OriginalName(filename) ==
    LET m == OrderPatternMatch(filename)
    IN  IF m.ok THEN m.g2 ELSE filename

----------------------------------------------------------------------------
(* Paths: a directory is a sequence of components, a path a directory and  *)
(* a file name (os.path.dirname / os.path.basename / os.path.join)         *)

Folders == {<<"F">>, <<"G">>}
DisabledFolder(dir) == Append(dir, "Disabled")
Path(dir, file) == [dir |-> dir, file |-> file]

File_a == <<"a", ".", "m", "p", "3">>
File_b == <<"b", ".", "m", "p", "3">>
File_1a == <<"0", "0", "1", " ", "a", ".", "m", "p", "3">>

\* a file without a title tag
NoTitle == <<>>

\* os.path.splitext(name)[0]: the name up to its last dot, leading dots aside
SplitExtRoot(name) ==
    LET dots == {i \in DOMAIN name :
                    /\ name[i] = "."
                    /\ \E j \in 1..(i - 1) : name[j] # "."}
    IN  IF dots = {} THEN name
        ELSE SubSeq(name, 1, (CHOOSE i \in dots : \A j \in dots : j <= i) - 1)

\* the mp3 files found on disk when the program starts
InitFiles ==
    LET ps == {Path(<<"F">>, File_a), Path(<<"F">>, File_1a), Path(<<"F">>, File_b)}
    IN  [p \in ps |-> [src |-> p.file, tag |-> NoId, title |-> NoTitle]]

SeriesNames == {"", "X"}

----------------------------------------------------------------------------
(* Sequence helpers *)

Range(s) == {s[i] : i \in DOMAIN s}

\* max(values, default=0)
MaxDefault0(S) == IF S = {} THEN 0 ELSE CHOOSE x \in S : \A y \in S : y <= x

\* the smallest element of a non-empty set of indices, 0 for the empty set
FirstOf(hits) ==
    IF hits = {} THEN 0 ELSE CHOOSE i \in hits : \A j \in hits : i <= j

\* list.sort(key=lambda x: x.get("order", 0)) : stable
RECURSIVE InsertByOrder(_, _)
InsertByOrder(sorted, x) ==
    IF sorted = <<>> THEN <<x>>
    ELSE IF sorted[Len(sorted)].order <= x.order THEN Append(sorted, x)
    ELSE Append(InsertByOrder(SubSeq(sorted, 1, Len(sorted) - 1), x),
                sorted[Len(sorted)])

RECURSIVE SortByOrder(_)
SortByOrder(s) ==
    IF s = <<>> THEN <<>>
    ELSE InsertByOrder(SortByOrder(SubSeq(s, 1, Len(s) - 1)), s[Len(s)])

----------------------------------------------------------------------------
(* RecordStore / OrderStore *)

SongIds(ss) == {ss[i].id : i \in DOMAIN ss}

\* next((p for p in playlists if p["folder_path"] == folder), None)
PlaylistIndex(pls, folder) == FirstOf({i \in DOMAIN pls : pls[i].folder_path = folder})

\* next((o for o in orders if o["id"] == id), None)
EntryIndex(orders, id) == FirstOf({i \in DOMAIN orders : orders[i].id = id})

\* next((s for s in songs if s["id"] == id), None)
SongIndex(ss, id) == FirstOf({i \in DOMAIN ss : ss[i].id = id})

\* the entries of every playlist of the folder, in file order
RECURSIVE FolderEntries(_, _)
FolderEntries(pls, folder) ==
    IF pls = <<>> THEN <<>>
    ELSE (IF Head(pls).folder_path = folder THEN Head(pls).orders ELSE <<>>)
         \o FolderEntries(Tail(pls), folder)

get_playlist_order(pls, folder, id) ==
    LET es == FolderEntries(pls, folder)
        k == EntryIndex(es, id)
    IN  IF k = 0 THEN 0 ELSE es[k].order

\* an update that appends an entry without looking for the song's entry
update_playlist_order_appending(pls, folder, id, new_order) ==
    LET with == IF PlaylistIndex(pls, folder) = 0
                THEN Append(pls, [folder_path |-> folder, orders |-> <<>>])
                ELSE pls
        pi == PlaylistIndex(with, folder)
    IN  [with EXCEPT ![pi].orders = Append(@, [id |-> id, order |-> new_order])]

update_playlist_order(pls, folder, id, new_order) ==
    LET with == IF PlaylistIndex(pls, folder) = 0
                THEN Append(pls, [folder_path |-> folder, orders |-> <<>>])
                ELSE pls
        pi == PlaylistIndex(with, folder)
        k == EntryIndex(with[pi].orders, id)
    IN  IF k # 0
        THEN [with EXCEPT ![pi].orders[k].order = new_order]
        ELSE [with EXCEPT ![pi].orders =
                  Append(@, [id |-> id, order |-> new_order])]

\* a faulty variant of generate_song_id that numbers by the count of ids in
\* use; C19 must tell it from the code
generate_song_id_by_count(used_ids) == FormatId(Cardinality(used_ids))

\* a faulty variant of generate_song_id that starts at range(1, 10000);
\* C20 must tell it from the code
generate_song_id_from_one(used_ids) ==
    IF \E i \in 1..(IdSpace - 1) : FormatId(i) \notin used_ids
    THEN FormatId(CHOOSE i \in 1..(IdSpace - 1) :
                     /\ FormatId(i) \notin used_ids
                     /\ \A j \in 1..(i - 1) : FormatId(j) \in used_ids)
    ELSE NoId

\* the first candidate of range(10000) that is not in used_ids; NoId stands
\* for the ValueError raised when there is none
generate_song_id(used_ids) ==
    IF \E i \in 0..(IdSpace - 1) : FormatId(i) \notin used_ids
    THEN FormatId(CHOOSE i \in 0..(IdSpace - 1) :
                     /\ FormatId(i) \notin used_ids
                     /\ \A j \in 0..(i - 1) : FormatId(j) \in used_ids)
    ELSE NoId

\* load_folder_songs: the folder's records, in collection order, with "order"
load_folder_songs(ss, pls, folder) ==
    LET fs == SelectSeq(ss, LAMBDA s : s.path.dir = folder)
        pi == PlaylistIndex(pls, folder)
    IN  [i \in 1..Len(fs) |->
            [id |-> fs[i].id, name |-> fs[i].name, path |-> fs[i].path,
             series |-> fs[i].series, weight |-> fs[i].weight,
             order |-> IF pi = 0 THEN i
                       ELSE LET k == EntryIndex(pls[pi].orders, fs[i].id)
                            IN  IF k = 0 THEN 0 ELSE pls[pi].orders[k].order]]

\* OrderTab.refresh_view: the rows of the order table
OrderTableRows ==
    SortByOrder(load_folder_songs(songs, playlists, current_folder))

\* self.current_changes.get(id, default)
Staged(cc, id, default) == IF id \in DOMAIN cc THEN cc[id] ELSE default

----------------------------------------------------------------------------
(* File system capabilities *)

\* os.rename / shutil.move onto a file path: the target is replaced
MoveFile(fsys, old, new) ==
    IF old = new THEN fsys
    ELSE [p \in (DOMAIN fsys \ {old}) \cup {new} |->
             IF p = new THEN fsys[old] ELSE fsys[p]]

\* shutil.copy2
CopyFile(fsys, old, new) ==
    [p \in DOMAIN fsys \cup {new} |-> IF p = new THEN fsys[old] ELSE fsys[p]]

SetTag(fsys, p, id) == [fsys EXCEPT ![p].tag = id]

\* a faulty variant of SetTitle that keeps the extension in the title; C17
\* must tell it from the code
SetTitleWithExtension(fsys, p, new_filename) == [fsys EXCEPT ![p].title = new_filename]

\* audio['title'] = os.path.splitext(new_filename)[0]; audio.save()
SetTitle(fsys, p, new_filename) == [fsys EXCEPT ![p].title = SplitExtRoot(new_filename)]

----------------------------------------------------------------------------
(* Registration and removal *)

Ran(op, sel, arg, ok) ==
    [op |-> op, sel |-> sel, arg |-> arg, ok |-> ok, fault |-> "none"]

\* a faulty variant of add_song_to_database that goes on without an id when
\* generate_song_id raises; C21 must tell it from the code
add_song_to_database_unguarded(st, file_path) ==
    LET new_id == generate_song_id(SongIds(st.songs))
        new_song == [id |-> new_id, name |-> file_path.file, path |-> file_path,
                     series |-> "", weight |-> DefaultWeight]
    IN  [songs |-> Append(st.songs, new_song),
         playlists |-> update_playlist_order(st.playlists, file_path.dir, new_id, 1),
         files |-> SetTag(st.files, file_path, new_id)]

\* add_song_to_database as called with a path that is not registered; the
\* ValueError of generate_song_id is caught at line 1539 and nothing is added
\* a registration that does not look for the path among the records
add_song_to_database_unchecked(st, file_path) ==
    LET new_id == generate_song_id(SongIds(st.songs))
        folder == file_path.dir
        pi == PlaylistIndex(st.playlists, folder)
        current_max_order ==
            IF pi = 0 THEN 0
            ELSE MaxDefault0({st.playlists[pi].orders[k].order :
                                 k \in DOMAIN st.playlists[pi].orders})
        new_order == current_max_order + 1
        new_song == [id |-> new_id, name |-> file_path.file, path |-> file_path,
                     series |-> "", weight |-> DefaultWeight]
    IN  IF new_id = NoId
        THEN st
        ELSE [songs |-> Append(st.songs, new_song),
              playlists |-> update_playlist_order(st.playlists, folder, new_id,
                                                  new_order),
              files |-> SetTag(st.files, file_path, new_id)]

add_song_to_database(st, file_path) ==
    LET new_id == generate_song_id(SongIds(st.songs))
        folder == file_path.dir
        pi == PlaylistIndex(st.playlists, folder)
        current_max_order ==
            IF pi = 0 THEN 0
            ELSE MaxDefault0({st.playlists[pi].orders[k].order :
                                 k \in DOMAIN st.playlists[pi].orders})
        new_order == current_max_order + 1
        new_song == [id |-> new_id, name |-> file_path.file, path |-> file_path,
                     series |-> "", weight |-> DefaultWeight]
    IN  IF \E i \in DOMAIN st.songs : st.songs[i].path = file_path
        THEN st
        ELSE IF new_id = NoId
        THEN st
        ELSE [songs |-> Append(st.songs, new_song),
              playlists |-> update_playlist_order(st.playlists, folder, new_id,
                                                  new_order),
              files |-> SetTag(st.files, file_path, new_id)]

\* lines 655-674: one selected item of add_selected_songs
AddOne(st, p) ==
    LET existing_id == st.files[p].tag
        k == SongIndex(st.songs, existing_id)
    IN  IF existing_id # NoId /\ k # 0
        THEN [st EXCEPT !.songs[k].path = p, !.songs[k].name = p.file]
        ELSE add_song_to_database(st, p)

RECURSIVE AddLoop(_, _)
AddLoop(st, paths) ==
    IF paths = <<>> THEN st ELSE AddLoop(AddOne(st, Head(paths)), Tail(paths))

\* the rows of the unregistered list: load_unregistered_songs
UnregisteredFiles ==
    {p.file : p \in {q \in DOMAIN files :
                        /\ q.dir = current_folder
                        /\ \A i \in DOMAIN songs : songs[i].path # q}}

\* the selections of a list: the sequences of distinct rows
Selections(S) ==
    UNION {{s \in [1..n -> S] : \A i, j \in 1..n : i # j => s[i] # s[j]} :
              n \in 1..Cardinality(S)}

\* PlaylistManagerUI.add_selected_songs
AddSelectedSongs(sel) ==
    /\ current_folder # NoFolder
    /\ nops < MaxOps
    /\ sel \in Selections(UnregisteredFiles)
    /\ LET st == AddLoop([songs |-> songs, playlists |-> playlists, files |-> files],
                         [i \in 1..Len(sel) |-> Path(current_folder, sel[i])])
       IN  /\ Len(st.songs) > Len(songs) => Len(st.songs) <= MaxRecords
           /\ songs' = st.songs
           /\ playlists' = st.playlists
           /\ files' = st.files
    /\ last' = Ran("add", <<>>, Len(sel), TRUE)
    /\ nops' = nops + 1
    /\ UNCHANGED <<current_folder, current_changes, shInput, shOutput, idSet, idOut,
                   gapSongs, gapMax, gapOut, codecName, codecOut>>

\* a faulty variant of remove_song_from_database that leaves the order
\* entry behind; C24 must tell it from the code
remove_song_from_database_record_only(ss, pls, song_id, folder) ==
    [songs |-> SelectSeq(ss, LAMBDA s : s.id # song_id), playlists |-> pls]

remove_song_from_database(ss, pls, song_id, folder) ==
    [songs |-> SelectSeq(ss, LAMBDA s : s.id # song_id),
     playlists |->
        [i \in DOMAIN pls |->
            IF pls[i].folder_path = folder
            THEN [pls[i] EXCEPT !.orders = SelectSeq(@, LAMBDA o : o.id # song_id)]
            ELSE pls[i]]]

\* PlaylistManagerUI.remove_selected_songs, one row of the registered table
RemoveSelectedSong(row) ==
    /\ current_folder # NoFolder
    /\ nops < MaxOps
    /\ LET rows == load_folder_songs(songs, playlists, current_folder)
       IN  /\ row \in DOMAIN rows
           /\ LET r == remove_song_from_database(songs, playlists, rows[row].id,
                                                 current_folder)
                  p == rows[row].path
              IN  /\ songs' = r.songs
                  /\ playlists' = r.playlists
                  /\ files' = IF p \in DOMAIN files THEN SetTag(files, p, NoId)
                              ELSE files
                  /\ last' = Ran("remove", <<rows[row].id>>, 0, TRUE)
    /\ nops' = nops + 1
    /\ UNCHANGED <<current_folder, current_changes, shInput, shOutput, idSet, idOut,
                   gapSongs, gapMax, gapOut, codecName, codecOut>>

\* PlaylistManagerUI.browse_folder
BrowseFolder(folder) ==
    /\ folder # current_folder
    /\ nops < MaxOps
    /\ current_folder' = folder
    /\ last' = Ran("browse", <<>>, 0, TRUE)
    /\ nops' = nops + 1
    /\ UNCHANGED <<songs, playlists, files, current_changes, shInput, shOutput, idSet, idOut,
                   gapSongs, gapMax, gapOut, codecName, codecOut>>

\* the characters of a directory name
NameChars(c) ==
    CASE c = "F" -> <<"F">>
      [] c = "F2" -> <<"F", "2">>
      [] c = "G" -> <<"G">>
      [] c = "Disabled" -> <<"D", "i", "s", "a", "b", "l", "e", "d">>

\* a folder as the string the program holds: its names joined by os.sep
RECURSIVE FolderString(_)
FolderString(dir) ==
    IF Len(dir) = 1 THEN NameChars(dir[1])
    ELSE FolderString(SubSeq(dir, 1, Len(dir) - 1)) \o <<"/">> \o NameChars(dir[Len(dir)])

\* os.path.join(dir, file): the string of a song's path
PathString(p) == FolderString(p.dir) \o <<"/">> \o p.file

\* str.startswith
StartsWith(s, prefix) ==
    Len(prefix) <= Len(s) /\ SubSeq(s, 1, Len(prefix)) = prefix

\* os.walk(folder): the folder itself and the directories below it
IsUnder(dir, folder) ==
    Len(folder) <= Len(dir) /\ SubSeq(dir, 1, Len(folder)) = folder

\* lines 700-718: the files, the records and the playlist entry of a folder
delete_playlist(st, folder) ==
    [songs |-> SelectSeq(st.songs,
                         LAMBDA s : ~StartsWith(PathString(s.path), FolderString(folder))),
     playlists |-> SelectSeq(st.playlists, LAMBDA pl : pl.folder_path # folder),
     files |-> [q \in {q \in DOMAIN st.files : ~IsUnder(q.dir, folder)} |-> st.files[q]]]

\* PlaylistManagerUI.delete_playlist, confirmed in the dialog
DeletePlaylist ==
    /\ current_folder # NoFolder
    /\ nops < MaxOps
    /\ LET st == delete_playlist([songs |-> songs, playlists |-> playlists,
                                  files |-> files], current_folder)
       IN  /\ songs' = st.songs
           /\ playlists' = st.playlists
           /\ files' = st.files
    /\ current_folder' = NoFolder
    /\ last' = Ran("delete", <<>>, 0, TRUE)
    /\ nops' = nops + 1
    /\ UNCHANGED <<current_changes, shInput, shOutput, idSet, idOut,
                   gapSongs, gapMax, gapOut, codecName, codecOut>>

----------------------------------------------------------------------------
(* Shuffler: OrderTab.randomize_playlist.  A song is [id, series]; the     *)
(* result list holds NoSong where the code holds None.  The outcomes of    *)
(* random.randint and random.shuffle are enumerated.                       *)

NoSong == [id |-> NoId, series |-> "-"]

\* the keys of series_dict, in insertion order
RECURSIVE SeriesKeys(_)
SeriesKeys(ss) ==
    IF ss = <<>> THEN <<>>
    ELSE LET pre == SeriesKeys(SubSeq(ss, 1, Len(ss) - 1))
         IN  IF ss[Len(ss)].series \in Range(pre) THEN pre
             ELSE Append(pre, ss[Len(ss)].series)

SeriesGroup(ss, series) == SelectSeq(ss, LAMBDA s : s.series = series)

\* max(0, min(total_songs - 1, point + shift))
ClampPoint(total, x) ==
    LET lo == IF x < total - 1 THEN x ELSE total - 1
    IN  IF lo > 0 THEN lo ELSE 0

\* the distribution points one series can get: int((i * total) / size) + shift
ShiftedPoints(total, size) ==
    {t \in [1..size -> 0..(total - 1)] :
        \A i \in 1..size :
            \E shift \in (0 - ShiftMax)..ShiftMax :
                t[i] = ClampPoint(total, (((i - 1) * total) \div size) + shift)}

\* the results of random.shuffle(s)
Shuffles(s) ==
    {[i \in 1..Len(s) |-> s[p[i]]] : p \in Permutations(1..Len(s))}

\* one series' random draw: its shuffled songs and its shifted points
DrawSet(ss, series) ==
    {[songs |-> sh, points |-> pt] :
        sh \in Shuffles(SeriesGroup(ss, series)),
        pt \in ShiftedPoints(Len(ss), Len(SeriesGroup(ss, series)))}

\* the draws of all series, one per key, in key order
RECURSIVE DrawsFor(_, _)
DrawsFor(ss, keys) ==
    IF keys = <<>> THEN {<<>>}
    ELSE {<<d>> \o rest : d \in DrawSet(ss, Head(keys)),
                          rest \in DrawsFor(ss, Tail(keys))}

\* result[adj] is a song of the series, for adj = pos - 1 or pos + 1
AdjacentClear(result, pos, series) ==
    \A adj \in {pos - 1, pos + 1} :
        ~ (/\ 0 <= adj
           /\ adj < Len(result)
           /\ result[adj + 1] # NoSong
           /\ result[adj + 1].series = series)

IsUsed(result, pos) ==
    0 <= pos /\ pos < Len(result) /\ result[pos + 1] # NoSong

\* lines 990-1010: the while loop over search_radius for one song
RECURSIVE PlaceNearTarget(_, _, _, _)
PlaceNearTarget(result, song, target, search_radius) ==
    LET cand == <<target, target + search_radius, target - search_radius>>
        fits == {k \in 1..3 :
                    /\ 0 <= cand[k]
                    /\ cand[k] < Len(result)
                    /\ ~ IsUsed(result, cand[k])
                    /\ AdjacentClear(result, cand[k], song.series)}
    IN  IF fits # {}
        THEN [result EXCEPT ![cand[FirstOf(fits)] + 1] = song]
        ELSE IF IsUsed(result, cand[3])        \* "if pos in used_positions: break"
        THEN result
        ELSE IF search_radius + 1 < Len(result)
        THEN PlaceNearTarget(result, song, target, search_radius + 1)
        ELSE result

\* the songs of one series, each at its point
RECURSIVE PlaceSeries(_, _, _)
PlaceSeries(result, draw, i) ==
    IF i > Len(draw.points) \/ i > Len(draw.songs) THEN result
    ELSE PlaceSeries(PlaceNearTarget(result, draw.songs[i], draw.points[i], 0),
                     draw, i + 1)

\* first pass, over the series in key order
RECURSIVE FirstPass(_, _)
FirstPass(result, draws) ==
    IF draws = <<>> THEN result
    ELSE FirstPass(PlaceSeries(result, Head(draws), 1), Tail(draws))

\* remaining_songs before it is shuffled
RECURSIVE RemainingSongs(_, _)
RemainingSongs(result, draws) ==
    IF draws = <<>> THEN <<>>
    ELSE SelectSeq(Head(draws).songs, LAMBDA s : s \notin Range(result))
         \o RemainingSongs(result, Tail(draws))

RemoveAt(s, j) == SubSeq(s, 1, j - 1) \o SubSeq(s, j + 1, Len(s))

\* "Fill gaps": slot i takes the first remaining song with clear neighbours
RECURSIVE FillGaps(_, _, _)
FillGaps(result, remaining, i) ==
    IF i >= Len(result) THEN [result |-> result, remaining |-> remaining]
    ELSE IF result[i + 1] = NoSong /\ remaining # <<>>
    THEN LET j == FirstOf({j \in DOMAIN remaining :
                              AdjacentClear(result, i, remaining[j].series)})
         IN  IF j # 0
             THEN FillGaps([result EXCEPT ![i + 1] = remaining[j]],
                           RemoveAt(remaining, j), i + 1)
             ELSE FillGaps(result, remaining, i + 1)
    ELSE FillGaps(result, remaining, i + 1)

\* "Final pass": every slot still None takes remaining_songs.pop(0)
RECURSIVE FinalPass(_, _, _)
FinalPass(result, remaining, i) ==
    IF i >= Len(result) THEN result
    ELSE IF result[i + 1] = NoSong /\ remaining # <<>>
    THEN FinalPass([result EXCEPT ![i + 1] = Head(remaining)], Tail(remaining), i + 1)
    ELSE FinalPass(result, remaining, i + 1)

\* a faulty variant of ShuffleResult, without the final pass: the slots the
\* gap filling left empty are dropped; C9 must tell it from the code
ShuffleResultNoFinalPass(first, remaining) ==
    SelectSeq(FillGaps(first, remaining, 0).result, LAMBDA s : s # NoSong)

\* the list randomize_playlist returns for one outcome of the random draws
ShuffleResult(first, remaining) ==
    LET g == FillGaps(first, remaining, 0)
    IN  SelectSeq(FinalPass(g.result, g.remaining, 0), LAMBDA s : s # NoSong)

\* every list randomize_playlist(ss) can return
randomize_playlist(ss) ==
    UNION {LET first == FirstPass([i \in 1..Len(ss) |-> NoSong], draws)
           IN  {ShuffleResult(first, remaining) :
                   remaining \in Shuffles(RemainingSongs(first, draws))}
           : draws \in DrawsFor(ss, SeriesKeys(ss))}

\* the lists of songs given to the Shuffler: ids ID0000.., any series
ShuffleInputs ==
    UNION {{[i \in 1..n |-> [id |-> FormatId(i - 1), series |-> f[i]]] :
               f \in [1..n -> {"", "X", "Y"}]} : n \in 0..MaxShuffle}

ShuffleInit ==
    /\ songs = <<>>
    /\ playlists = <<>>
    /\ files = InitFiles
    /\ current_folder = NoFolder
    /\ current_changes = <<>>
    /\ nops = 0
    /\ last = [op |-> "init", sel |-> <<>>, arg |-> 0, ok |-> TRUE]
    /\ shInput \in ShuffleInputs
    /\ shOutput = <<>>
    /\ idSet = {}
    /\ idOut = NoCall
    /\ gapSongs = <<>>
    /\ gapMax = 0
    /\ gapOut = NoOrder
    /\ codecName = <<>>
    /\ codecOut = <<>>

RandomizePlaylist ==
    /\ last.op = "init"
    /\ shOutput' \in randomize_playlist(shInput)
    /\ last' = [last EXCEPT !.op = "randomize_playlist"]
    /\ UNCHANGED <<songs, playlists, files, current_folder, current_changes, nops,
                   shInput, idSet, idOut,
                   gapSongs, gapMax, gapOut, codecName, codecOut>>

ShuffleNext == RandomizePlaylist

ShuffleSpec == ShuffleInit /\ [][ShuffleNext]_vars

----------------------------------------------------------------------------
(* The allocator on its own: generate_song_id against any id set *)

\* the id sets songs.json may hold: the first MaxIds ids, a far one, and an
\* id that is not of the f"{ID_PREFIX}{i:04d}" shape
IdPool == {FormatId(i) : i \in 0..(MaxIds - 1)} \cup {FormatId(10), <<"I", "D", "1">>}

\* a songs.json that holds every id of range(10000)
FullDatabase ==
    [i \in 1..IdSpace |->
        [id |-> FormatId(i - 1), name |-> FormatId(i - 1),
         path |-> Path(<<"G">>, FormatId(i - 1)), series |-> "",
         weight |-> DefaultWeight]]

AllocInit ==
    /\ \/ songs = <<>> /\ idSet \in SUBSET IdPool
       \/ songs = FullDatabase /\ idSet = SongIds(FullDatabase)
    /\ playlists = <<>>
    /\ files = InitFiles
    /\ current_folder = NoFolder
    /\ current_changes = <<>>
    /\ nops = 0
    /\ last = Ran("init", <<>>, 0, TRUE)
    /\ shInput = <<>>
    /\ shOutput = <<>>
    /\ idOut = NoCall
    /\ gapSongs = <<>>
    /\ gapMax = 0
    /\ gapOut = NoOrder
    /\ codecName = <<>>
    /\ codecOut = <<>>

\* add_song_to_database(file_path) on a file that is not registered
AddSongToDatabase(p) ==
    /\ last.op = "init"
    /\ idOut = NoCall
    /\ p \in DOMAIN files
    /\ LET st == AddOne([songs |-> songs, playlists |-> playlists, files |-> files], p)
       IN  /\ songs' = st.songs
           /\ playlists' = st.playlists
           /\ files' = st.files
           /\ last' = Ran("add", <<>>, 1, st.songs # songs)
    /\ UNCHANGED <<current_folder, current_changes, nops, shInput, shOutput,
                   idSet, idOut,
                   gapSongs, gapMax, gapOut, codecName, codecOut>>

\* song_id = generate_song_id()
GenerateSongId ==
    /\ idOut = NoCall
    /\ idOut' = generate_song_id(idSet)
    /\ UNCHANGED <<songs, playlists, files, current_folder, current_changes, nops,
                   last, shInput, shOutput, idSet,
                   gapSongs, gapMax, gapOut, codecName, codecOut>>

\* songs.append(new_song); save_songs_to_database(songs): the id is in use
AppendNewSong ==
    /\ idOut # NoCall
    /\ idOut # NoId
    /\ Cardinality(idSet) <= MaxIds
    /\ idSet' = idSet \cup {idOut}
    /\ idOut' = NoCall
    /\ UNCHANGED <<songs, playlists, files, current_folder, current_changes, nops,
                   last, shInput, shOutput,
                   gapSongs, gapMax, gapOut, codecName, codecOut>>

AllocNext ==
    \/ GenerateSongId
    \/ AppendNewSong
    \/ \E p \in DOMAIN files : AddSongToDatabase(p)

AllocSpec == AllocInit /\ [][AllocNext]_vars

----------------------------------------------------------------------------
(* The gap filler on its own: find_next_available_order *)

\* range(1, n): the first i of 1..hi that is not in used_numbers, 0 for none
RECURSIVE FirstUnused(_, _, _)
FirstUnused(used_numbers, i, hi) ==
    IF i > hi THEN 0
    ELSE IF i \notin used_numbers THEN i
    ELSE FirstUnused(used_numbers, i + 1, hi)

find_next_available_order(ss, folder_path, current_max_order) ==
    LET folder_songs == SelectSeq(ss, LAMBDA s : s.path.dir = folder_path)
        used_numbers == {extract_order_number(folder_songs[k].name) :
                            k \in DOMAIN folder_songs}
        i == FirstUnused(used_numbers, 1, current_max_order + 1)
    IN  IF i # 0 THEN i ELSE current_max_order + 1

\* the records the gap filler is given: a file without prefix and the files
\* "001 a.mp3" .. in folder F, and one prefixed file of folder G
GapRecord(dir, name) ==
    [id |-> NoId, name |-> name, path |-> Path(dir, name), series |-> "",
     weight |-> DefaultWeight]

GapPool ==
    <<GapRecord(<<"F">>, File_a)>>
    \o [k \in 1..MaxGap |-> GapRecord(<<"F">>, FormatName(k, File_a))]
    \o <<GapRecord(<<"G">>, FormatName(1, File_b))>>

GapInit ==
    /\ songs = <<>>
    /\ playlists = <<>>
    /\ files = InitFiles
    /\ current_folder = NoFolder
    /\ current_changes = <<>>
    /\ nops = 0
    /\ last = Ran("init", <<>>, 0, TRUE)
    /\ shInput = <<>>
    /\ shOutput = <<>>
    /\ idSet = {}
    /\ idOut = NoCall
    /\ \E chosen \in SUBSET Range(GapPool) :
           gapSongs = SelectSeq(GapPool, LAMBDA r : r \in chosen)
    /\ gapMax \in 0..(MaxGap + 1)
    /\ gapOut = NoOrder
    /\ codecName = <<>>
    /\ codecOut = <<>>

FindNextAvailableOrder ==
    /\ gapOut = NoOrder
    /\ gapOut' = find_next_available_order(gapSongs, <<"F">>, gapMax)
    /\ UNCHANGED <<songs, playlists, files, current_folder, current_changes, nops,
                   last, shInput, shOutput, idSet, idOut, gapSongs, gapMax,
                   codecName, codecOut>>

GapNext == FindNextAvailableOrder

GapSpec == GapInit /\ [][GapNext]_vars

----------------------------------------------------------------------------
(* The naming convention on its own: ORDER_PATTERN and the name format *)

\* the characters of the names given to the codec
CodecChars == {"0", ArabicOne, " ", "\n", "a"}

CodecNames == UNION {[1..n -> CodecChars] : n \in 0..MaxName}

CodecInit ==
    /\ songs = <<>>
    /\ playlists = <<>>
    /\ files = InitFiles
    /\ current_folder = NoFolder
    /\ current_changes = <<>>
    /\ nops = 0
    /\ last = Ran("init", <<>>, 0, TRUE)
    /\ shInput = <<>>
    /\ shOutput = <<>>
    /\ idSet = {}
    /\ idOut = NoCall
    /\ gapSongs = <<>>
    /\ gapMax = 0
    /\ gapOut = NoOrder
    /\ codecName \in CodecNames
    /\ codecOut = <<>>

\* lines 1144-1168 with the parsed order kept: the name is matched, and a
\* name is formatted from the order and the original name it gave
FormatParsedName ==
    /\ codecOut = <<>>
    /\ OrderPatternMatch(codecName).ok
    /\ codecOut' = FormatName(extract_order_number(codecName), OriginalName(codecName))
    /\ UNCHANGED <<songs, playlists, files, current_folder, current_changes, nops,
                   last, shInput, shOutput, idSet, idOut, gapSongs, gapMax, gapOut,
                   codecName>>

CodecNext == FormatParsedName

CodecSpec == CodecInit /\ [][CodecNext]_vars

\* the orders an apply writes into a name: the orders of a folder of up to a
\* thousand songs, at the ends of each width
FormatOrders == {1, 12, 999, 1000}

\* lines 1144-1168: apply writes the name of a song from its order and its
\* base name (codecName, a file name, never empty)
FormatStagedName(order) ==
    /\ last.op = "init"
    /\ codecName # <<>>
    /\ codecOut' = FormatName(order, codecName)
    /\ last' = [last EXCEPT !.op = "format", !.arg = order]
    /\ UNCHANGED <<songs, playlists, files, current_folder, current_changes, nops,
                   shInput, shOutput, idSet, idOut, gapSongs, gapMax, gapOut,
                   codecName>>

FormatNext == \E order \in FormatOrders : FormatStagedName(order)

FormatSpec == CodecInit /\ [][FormatNext]_vars

----------------------------------------------------------------------------
(* Order tab: the staging handlers.  A selection is a non-empty set of     *)
(* rows of the table refresh_view filled; selected_rows is sorted.         *)

\* dict[key] = value
Put(cc, key, value) ==
    [k \in DOMAIN cc \cup {key} |-> IF k = key THEN value ELSE cc[k]]

RECURSIVE SortedRows(_)
SortedRows(S) ==
    IF S = {} THEN <<>>
    ELSE LET m == CHOOSE x \in S : \A y \in S : y <= x
         IN  Append(SortedRows(S \ {m}), m)

\* [self.table.item(row, 2).text() for row in selected_rows]
SelectedIds(rows, sel) ==
    LET rs == SortedRows(sel) IN [i \in 1..Len(rs) |-> rows[rs[i]].id]

\* lines 892-894: the selected songs take new_order, new_order + 1, ...
RECURSIVE StageSelected(_, _, _)
StageSelected(cc, ids, new_order) ==
    IF ids = <<>> THEN cc
    ELSE StageSelected(Put(cc, Head(ids), new_order), Tail(ids), new_order + 1)

\* lines 902-903: while current_pos in [staged orders of the selected]
RECURSIVE SkipClaimed(_, _, _)
SkipClaimed(cc, ids, current_pos) ==
    IF current_pos \in {Staged(cc, ids[i], NoOrder) : i \in DOMAIN ids}
    THEN SkipClaimed(cc, ids, current_pos + 1)
    ELSE current_pos

\* lines 900-906: the other songs, in collection order
RECURSIVE CompactOthers(_, _, _, _, _, _)
CompactOthers(cc, folder_songs, i, ids, disabled_songs, current_pos) ==
    IF i > Len(folder_songs) THEN cc
    ELSE IF folder_songs[i].id \notin Range(ids)
            /\ folder_songs[i].id \notin disabled_songs
    THEN LET pos == SkipClaimed(cc, ids, current_pos)
         IN  IF pos <= Len(folder_songs)
             THEN CompactOthers(Put(cc, folder_songs[i].id, pos), folder_songs,
                                i + 1, ids, disabled_songs, pos + 1)
             ELSE CompactOthers(cc, folder_songs, i + 1, ids, disabled_songs, pos)
    ELSE CompactOthers(cc, folder_songs, i + 1, ids, disabled_songs, current_pos)

\* a faulty variant of set_new_order that does not set the disabled songs
\* aside; C28 must tell it from the code
set_new_order_counting_disabled(cc, folder_songs, ids, new_order) ==
    CompactOthers(StageSelected(cc, ids, new_order), folder_songs, 1, ids, {}, 1)

\* OrderTab.set_new_order: the staged map it leaves
set_new_order(cc, folder_songs, ids, new_order) ==
    LET disabled_songs == {id \in DOMAIN cc : cc[id] = DISABLED /\ id \notin Range(ids)}
        staged == StageSelected(cc, ids, new_order)
        done == CompactOthers(staged, folder_songs, 1, ids, disabled_songs, 1)
    IN  [id \in DOMAIN done |->
            IF id \in disabled_songs THEN DISABLED ELSE done[id]]

SetNewOrder(sel, new_order) ==
    /\ current_folder # NoFolder
    /\ nops < MaxOps
    /\ sel # {}
    /\ LET rows == OrderTableRows
           folder_songs == load_folder_songs(songs, playlists, current_folder)
       IN  /\ sel \subseteq DOMAIN rows
           /\ new_order \in 1..Len(rows)
           /\ current_changes' =
                  set_new_order(current_changes, folder_songs,
                                SelectedIds(rows, sel), new_order)
           /\ last' = Ran("set_new_order", SelectedIds(rows, sel), new_order, TRUE)
    /\ nops' = nops + 1
    /\ UNCHANGED <<songs, playlists, files, current_folder, shInput, shOutput, idSet, idOut,
                   gapSongs, gapMax, gapOut, codecName, codecOut>>

\* lines 1097-1098
RECURSIVE MarkDisabled(_, _)
MarkDisabled(cc, ids) ==
    IF ids = <<>> THEN cc
    ELSE MarkDisabled(Put(cc, Head(ids), DISABLED), Tail(ids))

\* lines 1104-1108
RECURSIVE RenumberRemaining(_, _, _, _, _)
RenumberRemaining(cc, folder_songs, i, ids, current_pos) ==
    IF i > Len(folder_songs) THEN cc
    ELSE IF folder_songs[i].id \notin Range(ids)
    THEN RenumberRemaining(
             IF current_pos # folder_songs[i].order
             THEN Put(cc, folder_songs[i].id, current_pos) ELSE cc,
             folder_songs, i + 1, ids, current_pos + 1)
    ELSE RenumberRemaining(cc, folder_songs, i + 1, ids, current_pos)

\* OrderTab.disable_selected_songs: the staged map it leaves
disable_selected_songs(cc, folder_songs, ids) ==
    RenumberRemaining(MarkDisabled(cc, ids), folder_songs, 1, ids, 1)

\* a faulty variant of DisableSelectedSongs that writes DISABLED to the order
\* store at once; C26 must tell it from the code
DisableSelectedSongsPersisting(sel) ==
    /\ current_folder # NoFolder
    /\ nops < MaxOps
    /\ sel # {}
    /\ LET rows == OrderTableRows
           folder_songs == load_folder_songs(songs, playlists, current_folder)
       IN  /\ sel \subseteq DOMAIN rows
           /\ current_changes' =
                  disable_selected_songs(current_changes, folder_songs,
                                         SelectedIds(rows, sel))
           /\ playlists' = update_playlist_order(playlists, current_folder,
                                                 SelectedIds(rows, sel)[1], DISABLED)
           /\ last' = Ran("disable", SelectedIds(rows, sel), 0, TRUE)
    /\ nops' = nops + 1
    /\ UNCHANGED <<songs, files, current_folder, shInput, shOutput, idSet, idOut,
                   gapSongs, gapMax, gapOut, codecName, codecOut>>

DisableSelectedSongs(sel) ==
    /\ current_folder # NoFolder
    /\ nops < MaxOps
    /\ sel # {}
    /\ LET rows == OrderTableRows
           folder_songs == load_folder_songs(songs, playlists, current_folder)
       IN  /\ sel \subseteq DOMAIN rows
           /\ current_changes' =
                  disable_selected_songs(current_changes, folder_songs,
                                         SelectedIds(rows, sel))
           /\ last' = Ran("disable", SelectedIds(rows, sel), 0, TRUE)
    /\ nops' = nops + 1
    /\ UNCHANGED <<songs, playlists, files, current_folder, shInput, shOutput, idSet, idOut,
                   gapSongs, gapMax, gapOut, codecName, codecOut>>

\* line 1065: the selected songs whose preview order is -1
StagedDisabledOf(cc, rows, sel) ==
    LET rs == SortedRows(sel)
        pick == SelectSeq(rs, LAMBDA r : Staged(cc, rows[r].id, rows[r].order) = DISABLED)
    IN  [i \in 1..Len(pick) |-> rows[pick[i]].id]

\* a faulty variant of NextStagedOrder, starting at the highest enabled order
\* instead of one past it; C8 must tell it from the code
NextStagedOrderAtMax(cc, folder_songs) ==
    MaxDefault0({Staged(cc, folder_songs[i].id, folder_songs[i].order) :
                    i \in {j \in DOMAIN folder_songs :
                              Staged(cc, folder_songs[j].id, folder_songs[j].order)
                                  # DISABLED}})

\* lines 1070-1077: max(current_orders, default=0) + 1
NextStagedOrder(cc, folder_songs) ==
    MaxDefault0({Staged(cc, folder_songs[i].id, folder_songs[i].order) :
                    i \in {j \in DOMAIN folder_songs :
                              Staged(cc, folder_songs[j].id, folder_songs[j].order)
                                  # DISABLED}}) + 1

\* OrderTab.enable_selected_songs: the staged map it leaves
enable_selected_songs(cc, folder_songs, disabled_ids) ==
    StageSelected(cc, disabled_ids, NextStagedOrder(cc, folder_songs))

EnableSelectedSongs(sel) ==
    /\ current_folder # NoFolder
    /\ nops < MaxOps
    /\ sel # {}
    /\ LET rows == OrderTableRows
           folder_songs == load_folder_songs(songs, playlists, current_folder)
       IN  /\ sel \subseteq DOMAIN rows
           /\ StagedDisabledOf(current_changes, rows, sel) # <<>>
           /\ current_changes' =
                  enable_selected_songs(current_changes, folder_songs,
                      StagedDisabledOf(current_changes, rows, sel))
           /\ last' = Ran("stage_enable",
                          StagedDisabledOf(current_changes, rows, sel), 0, TRUE)
    /\ nops' = nops + 1
    /\ UNCHANGED <<songs, playlists, files, current_folder, shInput, shOutput, idSet, idOut,
                   gapSongs, gapMax, gapOut, codecName, codecOut>>

\* a faulty variant of ActiveSongs that lets the disabled songs through; C11
\* must tell it from the code
ActiveSongsUnfiltered(cc, folder_songs) == folder_songs

\* line 922-925: the songs whose preview order is not -1
ActiveSongs(cc, folder_songs) ==
    SelectSeq(folder_songs, LAMBDA s : Staged(cc, s.id, s.order) # DISABLED)

\* lines 934-935: the staged map after a shuffle that returned `randomized`
RECURSIVE StageShuffled(_, _, _)
StageShuffled(cc, randomized, new_order) ==
    IF randomized = <<>> THEN cc
    ELSE StageShuffled(Put(cc, Head(randomized).id, new_order), Tail(randomized),
                       new_order + 1)

\* OrderTab.randomize_songs
RandomizeSongs ==
    /\ current_folder # NoFolder
    /\ nops < MaxOps
    /\ LET folder_songs == load_folder_songs(songs, playlists, current_folder)
           active_songs == ActiveSongs(current_changes, folder_songs)
           input == [i \in 1..Len(active_songs) |->
                        [id |-> active_songs[i].id, series |-> active_songs[i].series]]
       IN  /\ active_songs # <<>>
           /\ \E randomized \in randomize_playlist(input) :
                  /\ current_changes' = StageShuffled(current_changes, randomized, 1)
                  /\ last' = Ran("randomize",
                                 [i \in 1..Len(randomized) |-> randomized[i].id], 0, TRUE)
    /\ nops' = nops + 1
    /\ UNCHANGED <<songs, playlists, files, current_folder, shInput, shOutput, idSet, idOut,
                   gapSongs, gapMax, gapOut, codecName, codecOut>>

\* a faulty variant of ResetChanges that keeps the songs staged DISABLED;
\* C27 must tell it from the code
ResetChangesKeepsDisabled ==
    /\ nops < MaxOps
    /\ current_changes # <<>>
    /\ current_changes' =
           [id \in {x \in DOMAIN current_changes : current_changes[x] = DISABLED}
               |-> DISABLED]
    /\ last' = Ran("reset", <<>>, 0, TRUE)
    /\ nops' = nops + 1
    /\ UNCHANGED <<songs, playlists, files, current_folder, shInput, shOutput, idSet, idOut,
                   gapSongs, gapMax, gapOut, codecName, codecOut>>

\* OrderTab.reset_changes
ResetChanges ==
    /\ nops < MaxOps
    /\ current_changes # <<>>
    /\ current_changes' = <<>>
    /\ last' = Ran("reset", <<>>, 0, TRUE)
    /\ nops' = nops + 1
    /\ UNCHANGED <<songs, playlists, files, current_folder, shInput, shOutput, idSet, idOut,
                   gapSongs, gapMax, gapOut, codecName, codecOut>>

----------------------------------------------------------------------------
(* OrderTab.apply_changes.  The loop works on the list `songs` it loaded   *)
(* (st.songs) and on new_songs; playlists.json and the files change as it  *)
(* goes, songs.json only when the loop ends without an exception.  A fault *)
(* is what the file system or the tag library does to one song: "io"      *)
(* (rename, move or copy raises) or "tag" (the title tag write raises).    *)

Faults == {"none", "io", "tag"}

\* lines 1162-1165: a disabled song, in place
ApplyDisabled(st, i, current_dir, fault) ==
    LET old_path == st.songs[i].path
        new_path == Path(DisabledFolder(current_dir), old_path.file)
    IN  IF fault = "io" \/ old_path \notin DOMAIN st.files
        THEN [st EXCEPT !.failed = TRUE]
        ELSE [st EXCEPT !.files = MoveFile(@, old_path, new_path),
                        !.songs[i].path = new_path]

\* a copy that gives the new record no order entry
ApplyCopyWithoutOrder(st, i, target_dir, new_order, fault) ==
    LET song == st.songs[i]
        old_path == song.path
        new_filename == FormatName(new_order, OriginalName(old_path.file))
        new_path == Path(target_dir, new_filename)
        new_id == generate_song_id(SongIds(st.songs) \cup SongIds(st.new_songs))
        new_song == [id |-> new_id, name |-> new_filename, path |-> new_path,
                     series |-> song.series, weight |-> song.weight]
    IN  IF fault # "none" \/ old_path \notin DOMAIN st.files \/ old_path = new_path
           \/ new_id = NoId
        THEN [st EXCEPT !.failed = TRUE]
        ELSE [st EXCEPT !.files = SetTitle(SetTag(CopyFile(@, old_path, new_path),
                                                  new_path, new_id),
                                           new_path, new_filename),
                        !.new_songs = Append(@, new_song)]

\* lines 1171-1213: an enabled song, copied to the new directory
ApplyCopy(st, i, target_dir, new_order, fault) ==
    LET song == st.songs[i]
        old_path == song.path
        new_filename == FormatName(new_order, OriginalName(old_path.file))
        new_path == Path(target_dir, new_filename)
        new_id == generate_song_id(SongIds(st.songs) \cup SongIds(st.new_songs))
        new_song == [id |-> new_id, name |-> new_filename, path |-> new_path,
                     series |-> song.series, weight |-> song.weight]
    IN  IF fault = "io" \/ old_path \notin DOMAIN st.files \/ old_path = new_path
        THEN [st EXCEPT !.failed = TRUE]
        ELSE IF new_id = NoId
        THEN [st EXCEPT !.files = CopyFile(@, old_path, new_path), !.failed = TRUE]
        ELSE IF fault = "tag"
        THEN [st EXCEPT !.files = SetTag(CopyFile(@, old_path, new_path), new_path, new_id),
                        !.new_songs = Append(@, new_song),
                        !.failed = TRUE]
        ELSE [st EXCEPT !.files = SetTitle(SetTag(CopyFile(@, old_path, new_path),
                                                  new_path, new_id),
                                           new_path, new_filename),
                        !.new_songs = Append(@, new_song),
                        !.playlists = update_playlist_order(@, target_dir, new_id, new_order)]

\* a rename that leaves the order store as it was
ApplyRenameWithoutOrder(st, i, current_dir, new_order, fault) ==
    LET song == st.songs[i]
        old_path == song.path
        new_filename == FormatName(new_order, OriginalName(old_path.file))
        new_path == Path(current_dir, new_filename)
    IN  IF fault # "none" \/ old_path \notin DOMAIN st.files
        THEN [st EXCEPT !.failed = TRUE]
        ELSE [st EXCEPT !.files = SetTitle(MoveFile(@, old_path, new_path),
                                           new_path, new_filename),
                        !.songs[i].path = new_path,
                        !.songs[i].name = new_filename]

\* lines 1215-1234: an enabled song, renamed in the current directory
ApplyRename(st, i, current_dir, new_order, fault) ==
    LET song == st.songs[i]
        old_path == song.path
        new_filename == FormatName(new_order, OriginalName(old_path.file))
        new_path == Path(current_dir, new_filename)
    IN  IF fault = "io" \/ old_path \notin DOMAIN st.files
        THEN [st EXCEPT !.failed = TRUE]
        ELSE IF fault = "tag"
        THEN [st EXCEPT !.files = MoveFile(@, old_path, new_path),
                        !.songs[i].path = new_path,
                        !.songs[i].name = new_filename,
                        !.failed = TRUE]
        ELSE [st EXCEPT !.files = SetTitle(MoveFile(@, old_path, new_path),
                                           new_path, new_filename),
                        !.songs[i].path = new_path,
                        !.songs[i].name = new_filename,
                        !.playlists = update_playlist_order(@, current_dir, song.id,
                                                            new_order)]

\* lines 1140-1234: one song of the loop
ApplySong(st, i, cc, current_dir, target_dir, new_dir, fault) ==
    LET song == st.songs[i]
        current_order == get_playlist_order(st.playlists, current_dir, song.id)
        new_order == Staged(cc, song.id, current_order)
        is_disabled == \/ new_order = DISABLED
                       \/ (song.id \notin DOMAIN cc /\ current_order = DISABLED)
    IN  IF song.path.dir # current_dir THEN st
        ELSE IF is_disabled
        THEN (IF new_dir THEN st ELSE ApplyDisabled(st, i, current_dir, fault))
        ELSE IF new_dir THEN ApplyCopy(st, i, target_dir, new_order, fault)
        ELSE ApplyRename(st, i, current_dir, new_order, fault)

\* lines 1139-1234: the loop; an exception ends it
RECURSIVE ApplyLoop(_, _, _, _, _, _, _, _)
ApplyLoop(st, i, cc, current_dir, target_dir, new_dir, fail_at, fault) ==
    IF i > Len(st.songs) \/ st.failed THEN st
    ELSE LET next == ApplySong(st, i, cc, current_dir, target_dir, new_dir,
                               IF i = fail_at THEN fault ELSE "none")
         IN  ApplyLoop(IF next.failed
                       THEN [next EXCEPT !.at = <<st.songs[i].id>>,
                                         !.cause = IF i = fail_at /\ fault = "tag"
                                                   THEN "tag" ELSE "io"]
                       ELSE next,
                       i + 1, cc, current_dir, target_dir, new_dir, fail_at, fault)

ApplyChanges(new_dir, target_dir, fail_at, fault) ==
    /\ current_folder # NoFolder
    /\ nops < MaxOps
    /\ current_changes # <<>>
    /\ new_dir \/ target_dir = current_folder
    /\ fail_at \in 0..Len(songs)
    /\ (fail_at = 0) <=> (fault = "none")
    /\ new_dir =>
          Len(songs) + Len(SelectSeq(songs, LAMBDA s : s.path.dir = current_folder))
              <= MaxRecords
    /\ LET st == ApplyLoop([songs |-> songs, playlists |-> playlists, files |-> files,
                            new_songs |-> <<>>, failed |-> FALSE,
                            at |-> <<>>, cause |-> "none"],
                           1, current_changes, current_folder, target_dir, new_dir,
                           fail_at, fault)
       IN  /\ playlists' = st.playlists
           /\ files' = st.files
           /\ IF st.failed
              THEN /\ UNCHANGED <<songs, current_folder, current_changes>>
                   /\ last' = [Ran("apply", st.at, IF new_dir THEN 1 ELSE 0, FALSE)
                                   EXCEPT !.fault = st.cause]
              ELSE /\ songs' = st.songs \o st.new_songs
                   /\ current_folder' = target_dir
                   /\ current_changes' = <<>>
                   /\ last' = Ran("apply", <<>>, IF new_dir THEN 1 ELSE 0, TRUE)
    /\ nops' = nops + 1
    /\ UNCHANGED <<shInput, shOutput, idSet, idOut,
                   gapSongs, gapMax, gapOut, codecName, codecOut>>

----------------------------------------------------------------------------
(* Disabled tab *)

\* DisabledTab.refresh_view: the rows of the disabled table
DisabledTableRows ==
    SelectSeq(songs, LAMBDA s : s.path.dir = DisabledFolder(current_folder))

\* lines 1324-1338: the highest order of a song located in the folder
ActiveMaxOrder(ss, pls, current_dir) ==
    LET pi == PlaylistIndex(pls, current_dir)
        active_song_ids == {ss[i].id : i \in {j \in DOMAIN ss : ss[j].path.dir = current_dir}}
    IN  IF pi = 0 THEN 0
        ELSE MaxDefault0({pls[pi].orders[k].order :
                             k \in {j \in DOMAIN pls[pi].orders :
                                       pls[pi].orders[j].id \in active_song_ids}})

\* lines 1341-1362: the loop over the selected rows
RECURSIVE EnableLoop(_, _, _, _, _, _)
EnableLoop(st, ids, k, current_dir, current_max_order, fail_at) ==
    IF k > Len(ids) \/ st.failed THEN st
    ELSE LET i == SongIndex(st.songs, ids[k])
             old_path == st.songs[i].path
             new_path == Path(current_dir, old_path.file)
         IN  IF old_path \in DOMAIN st.files /\ k = fail_at
             THEN [st EXCEPT !.failed = TRUE]
             ELSE EnableLoop(
                     [st EXCEPT !.files = IF old_path \in DOMAIN @
                                          THEN MoveFile(@, old_path, new_path) ELSE @,
                                !.songs[i].path = new_path,
                                !.playlists = update_playlist_order(
                                                  @, current_dir, ids[k],
                                                  current_max_order + 1)],
                     ids, k + 1, current_dir, current_max_order + 1, fail_at)

\* DisabledTab.enable_selected_songs
TabEnableSelectedSongs(sel, fail_at) ==
    /\ current_folder # NoFolder
    /\ nops < MaxOps
    /\ sel # {}
    /\ sel \subseteq DOMAIN DisabledTableRows
    /\ fail_at \in 0..Cardinality(sel)
    /\ LET ids == SelectedIds(DisabledTableRows, sel)
           st == EnableLoop([songs |-> songs, playlists |-> playlists, files |-> files,
                             failed |-> FALSE],
                            ids, 1, current_folder,
                            ActiveMaxOrder(songs, playlists, current_folder), fail_at)
       IN  /\ playlists' = st.playlists
           /\ files' = st.files
           /\ songs' = IF st.failed THEN songs ELSE st.songs
           /\ last' = Ran("tab_enable", ids, 0, ~ st.failed)
    /\ nops' = nops + 1
    /\ UNCHANGED <<current_folder, current_changes, shInput, shOutput, idSet, idOut,
                   gapSongs, gapMax, gapOut, codecName, codecOut>>

----------------------------------------------------------------------------
(* Registered tab: the edit dialog *)

\* PlaylistManagerUI.apply_edits for one row, the file name left as it is
EditSelectedSong(row, series) ==
    /\ current_folder # NoFolder
    /\ nops < MaxOps
    /\ LET rows == load_folder_songs(songs, playlists, current_folder)
       IN  /\ row \in DOMAIN rows
           /\ rows[row].series # series
           /\ songs' = [songs EXCEPT ![SongIndex(songs, rows[row].id)].series = series]
           /\ last' = Ran("edit", <<rows[row].id>>, 0, TRUE)
    /\ nops' = nops + 1
    /\ UNCHANGED <<playlists, files, current_folder, current_changes, shInput, shOutput, idSet, idOut,
                   gapSongs, gapMax, gapOut, codecName, codecOut>>

----------------------------------------------------------------------------

\* the program starts on the collections an earlier session left: none (a
\* first start) or three files registered one after the other
RegisteredFiles == <<File_a, File_b, File_1a>>

RECURSIVE Registered(_)
Registered(n) ==
    IF n = 0 THEN [songs |-> <<>>, playlists |-> <<>>, files |-> InitFiles]
    ELSE AddOne(Registered(n - 1), Path(<<"F">>, RegisteredFiles[n]))

Init ==
    /\ \E n \in {0, Len(RegisteredFiles)} :
          /\ songs = Registered(n).songs
          /\ playlists = Registered(n).playlists
          /\ files = Registered(n).files
    /\ current_folder = NoFolder
    /\ current_changes = <<>>
    /\ nops = 0
    /\ last = Ran("init", <<>>, 0, TRUE)
    /\ shInput = <<>>
    /\ shOutput = <<>>
    /\ idSet = {}
    /\ idOut = NoCall
    /\ gapSongs = <<>>
    /\ gapMax = 0
    /\ gapOut = NoOrder
    /\ codecName = <<>>
    /\ codecOut = <<>>

Next ==
    \/ \E folder \in Folders : BrowseFolder(folder)
    \/ \E sel \in Selections(UnregisteredFiles) : AddSelectedSongs(sel)
    \/ \E row \in DOMAIN songs : RemoveSelectedSong(row)
    \/ \E row \in DOMAIN songs, series \in SeriesNames : EditSelectedSong(row, series)
    \/ \E sel \in SUBSET (DOMAIN OrderTableRows), new_order \in DOMAIN OrderTableRows :
           SetNewOrder(sel, new_order)
    \/ \E sel \in SUBSET (DOMAIN OrderTableRows) : DisableSelectedSongs(sel)
    \/ \E sel \in SUBSET (DOMAIN OrderTableRows) : EnableSelectedSongs(sel)
    \/ RandomizeSongs
    \/ ResetChanges
    \/ \E new_dir \in BOOLEAN, target_dir \in Folders,
          fail_at \in 0..Len(songs), fault \in Faults :
           ApplyChanges(new_dir, target_dir, fail_at, fault)
    \/ \E sel \in SUBSET (DOMAIN DisabledTableRows), fail_at \in 0..Len(songs) :
           TabEnableSelectedSongs(sel, fail_at)

Spec == Init /\ [][Next]_vars

----------------------------------------------------------------------------
(* Registration, editing and removal in a collection that spans two folders *)

\* the user moves an mp3 file to another folder with a file manager, outside
\* the program; the file keeps its embedded id (the case lines 657-669 of
\* add_selected_songs look for)
MoveFileOutside(p, folder) ==
    /\ nops < MaxOps
    /\ p \in DOMAIN files
    /\ folder # p.dir
    /\ Path(folder, p.file) \notin DOMAIN files
    /\ files' = MoveFile(files, p, Path(folder, p.file))
    /\ last' = Ran("move", <<>>, 0, TRUE)
    /\ nops' = nops + 1
    /\ UNCHANGED <<songs, playlists, current_folder, current_changes,
                   shInput, shOutput, idSet, idOut,
                   gapSongs, gapMax, gapOut, codecName, codecOut>>

LibraryFolders == Folders \cup {<<"F2">>}

LibraryFiles ==
    LET ps == DOMAIN InitFiles \cup {Path(<<"G">>, File_b), Path(<<"F2">>, File_a)}
    IN  [p \in ps |-> [src |-> p.file, tag |-> NoId, title |-> NoTitle]]

\* the files of F, G and F2, registered by add_selected_songs
Library ==
    AddLoop([songs |-> <<>>, playlists |-> <<>>, files |-> LibraryFiles],
            [n \in DOMAIN RegisteredFiles |-> Path(<<"F">>, RegisteredFiles[n])]
                \o <<Path(<<"G">>, File_b), Path(<<"F2">>, File_a)>>)

LibraryInit ==
    /\ songs = Library.songs
    /\ playlists = Library.playlists
    /\ files = Library.files
    /\ current_folder = NoFolder
    /\ current_changes = <<>>
    /\ nops = 0
    /\ last = Ran("init", <<>>, 0, TRUE)
    /\ shInput = <<>>
    /\ shOutput = <<>>
    /\ idSet = {}
    /\ idOut = NoCall
    /\ gapSongs = <<>>
    /\ gapMax = 0
    /\ gapOut = NoOrder
    /\ codecName = <<>>
    /\ codecOut = <<>>

LibraryNext ==
    \/ \E folder \in LibraryFolders : BrowseFolder(folder)
    \/ DeletePlaylist
    \/ \E p \in DOMAIN files, folder \in LibraryFolders : MoveFileOutside(p, folder)
    \/ \E sel \in Selections(UnregisteredFiles) : AddSelectedSongs(sel)
    \/ \E row \in DOMAIN songs : RemoveSelectedSong(row)
    \/ \E row \in DOMAIN songs, series \in SeriesNames : EditSelectedSong(row, series)

LibrarySpec == LibraryInit /\ [][LibraryNext]_vars

\* add_song_to_database called with the path of any mp3 file, registered or
\* not; last.arg tells whether a record had the path
RegisterPath(p) ==
    /\ nops < MaxOps
    /\ p \in DOMAIN files
    /\ LET st == add_song_to_database([songs |-> songs, playlists |-> playlists,
                                       files |-> files], p)
       IN  /\ Len(st.songs) > Len(songs) => Len(st.songs) <= MaxRecords
           /\ songs' = st.songs
           /\ playlists' = st.playlists
           /\ files' = st.files
           /\ last' = Ran("register", <<>>,
                          IF \E i \in DOMAIN songs : songs[i].path = p THEN 1 ELSE 0,
                          st.songs # songs)
    /\ nops' = nops + 1
    /\ UNCHANGED <<current_folder, current_changes, shInput, shOutput, idSet, idOut,
                   gapSongs, gapMax, gapOut, codecName, codecOut>>

RegisterNext ==
    \/ \E p \in DOMAIN files : RegisterPath(p)
    \/ \E p \in DOMAIN files, folder \in LibraryFolders : MoveFileOutside(p, folder)
    \/ \E folder \in LibraryFolders : BrowseFolder(folder)
    \/ \E row \in DOMAIN songs : RemoveSelectedSong(row)

RegisterSpec == LibraryInit /\ [][RegisterNext]_vars

----------------------------------------------------------------------------
(* Properties *)

\* the records located directly in a folder: its enabled songs
EnabledSongs(ss, folder) == {i \in DOMAIN ss : ss[i].path.dir = folder}

\* the enabled orders of a folder are exactly 1..N, N its enabled songs
OrdersContiguous(ss, pls, folder) ==
    {get_playlist_order(pls, folder, ss[i].id) : i \in EnabledSongs(ss, folder)}
        = 1..Cardinality(EnabledSongs(ss, folder))

\* a name starts with the order as three zero-padded digits
HasOrderPrefix(name, order) ==
    /\ order >= 0
    /\ Len(name) >= 3
    /\ SubSeq(name, 1, 3) = Pad3(order)

\* C1: after apply (in place or to a new directory) ends without error, the
\* orders of the enabled songs of every folder are exactly 1..N.
C1_ApplyLeavesOrdersContiguous ==
    (last.op = "apply" /\ last.ok) =>
        \A folder \in Folders : OrdersContiguous(songs, playlists, folder)

\* C2: in every reachable state the orders of the non-disabled songs of a
\* folder are exactly 1..N, without duplicates or gaps.
C2_OrdersAlwaysContiguous ==
    \A folder \in Folders : OrdersContiguous(songs, playlists, folder)

\* C3: after a registration, an in-place apply, a re-enable from the Disabled
\* folder or a removal, the three-digit prefix of every enabled song's display
\* name and file name is its order in the order store.
C3_PrefixEqualsOrder ==
    (\/ last.op \in {"add", "tab_enable", "remove"}
     \/ (last.op = "apply" /\ last.ok /\ last.arg = 0)) =>
        \A folder \in Folders : \A i \in EnabledSongs(songs, folder) :
            /\ HasOrderPrefix(songs[i].name,
                              get_playlist_order(playlists, folder, songs[i].id))
            /\ HasOrderPrefix(songs[i].path.file,
                              get_playlist_order(playlists, folder, songs[i].id))

\* C4: in every reachable state every record's path is a file on disk and the
\* file's name is the record's display name.
C4_PathsPointToFiles ==
    \A i \in DOMAIN songs :
        /\ songs[i].path \in DOMAIN files
        /\ songs[i].name = songs[i].path.file

\* the m smallest positive integers outside `claimed`
FirstFree(claimed, m) ==
    {p \in 1..(m + Cardinality(claimed)) :
        p \notin claimed /\ Cardinality({q \in 1..p : q \notin claimed}) <= m}

\* C5: after set_new_order(selected, target) the selected songs are staged at
\* target, target+1, ...; the other enabled songs are staged at the remaining
\* positions in the relative order of their current order values.
C5_ManualReorderKeepsRelativeOrder ==
    last.op = "set_new_order" =>
        LET fs == load_folder_songs(songs, playlists, current_folder)
            claimed == last.arg..(last.arg + Len(last.sel) - 1)
            others == {i \in DOMAIN fs :
                          /\ fs[i].id \notin Range(last.sel)
                          /\ Staged(current_changes, fs[i].id, fs[i].order) # DISABLED}
        IN  /\ {Staged(current_changes, last.sel[k], NoOrder) : k \in DOMAIN last.sel}
                   = claimed
            /\ {Staged(current_changes, fs[i].id, NoOrder) : i \in others}
                   = FirstFree(claimed, Cardinality(others))
            /\ \A i, j \in others :
                   fs[i].order < fs[j].order =>
                       Staged(current_changes, fs[i].id, NoOrder)
                           < Staged(current_changes, fs[j].id, NoOrder)

\* C6: after stage_disable(ids), whatever was staged before, the songs of ids
\* and the songs staged DISABLED before are staged DISABLED, and the effective
\* staged orders of the others are exactly 1..remaining_count.
C6_StageDisableRenumbers ==
    [][last'.op = "disable" =>
        LET fs == load_folder_songs(songs, playlists, current_folder)
            remaining == {i \in DOMAIN fs :
                             Staged(current_changes', fs[i].id, fs[i].order) # DISABLED}
        IN  /\ \A id \in Range(last'.sel) :
                   Staged(current_changes', id, NoOrder) = DISABLED
            /\ \A id \in DOMAIN current_changes :
                   current_changes[id] = DISABLED =>
                       Staged(current_changes', id, NoOrder) = DISABLED
            /\ {Staged(current_changes', fs[i].id, fs[i].order) : i \in remaining}
                   = 1..Cardinality(remaining)]_vars

\* C7: stage_disable keeps the relative order of the songs that stay enabled:
\* the smaller order before (staged, else persisted) is the smaller staged
\* order after.
C7_StageDisableKeepsRelativeOrder ==
    [][last'.op = "disable" =>
        LET fs == load_folder_songs(songs, playlists, current_folder)
            stay == {i \in DOMAIN fs :
                        /\ Staged(current_changes, fs[i].id, fs[i].order) # DISABLED
                        /\ Staged(current_changes', fs[i].id, fs[i].order) # DISABLED}
        IN  \A i, j \in stay :
                Staged(current_changes, fs[i].id, fs[i].order)
                    < Staged(current_changes, fs[j].id, fs[j].order)
                => Staged(current_changes', fs[i].id, fs[i].order)
                    < Staged(current_changes', fs[j].id, fs[j].order)]_vars

\* the effective orders of the enabled songs of the current folder: staged
\* when one is staged, else persisted
EffectiveOrders(cc, fs) ==
    {Staged(cc, fs[i].id, fs[i].order) :
        i \in {j \in DOMAIN fs : Staged(cc, fs[j].id, fs[j].order) # DISABLED}}

\* C8 for the staged enable of the Order tab
StagedEnableAppends ==
    LET fs == load_folder_songs(songs, playlists, current_folder)
        top == MaxDefault0(EffectiveOrders(current_changes, fs))
        ids == last'.sel
    IN  /\ \A k \in DOMAIN ids : Staged(current_changes', ids[k], NoOrder) = top + k
        /\ \A i \in DOMAIN fs :
               fs[i].id \notin Range(ids) =>
                   Staged(current_changes', fs[i].id, fs[i].order)
                       = Staged(current_changes, fs[i].id, fs[i].order)
        /\ \A k \in DOMAIN ids :
               Staged(current_changes', ids[k], NoOrder)
                   \notin EffectiveOrders(current_changes, fs)

\* C8 for the immediate enable of the Disabled tab
TabEnableAppends ==
    LET was == EnabledSongs(songs, current_folder)
        before == {get_playlist_order(playlists, current_folder, songs[i].id) : i \in was}
        top == MaxDefault0(before)
        ids == last'.sel
    IN  /\ last'.ok =>
               \A k \in DOMAIN ids :
                   /\ get_playlist_order(playlists', current_folder, ids[k]) = top + k
                   /\ get_playlist_order(playlists', current_folder, ids[k]) \notin before
                   /\ SongIndex(songs', ids[k]) \in EnabledSongs(songs', current_folder)
        /\ \A i \in was :
               get_playlist_order(playlists', current_folder, songs[i].id)
                   = get_playlist_order(playlists, current_folder, songs[i].id)

\* C8: enabling disabled songs (staged in the Order tab, or at once from the
\* Disabled tab) gives them the consecutive orders max+1, max+2, ... after the
\* highest order of an enabled song; no enabled song's order changes and no
\* order of a still-enabled song is given out again.
C8_EnableAppendsAfterMaximum ==
    [][/\ last'.op = "stage_enable" => StagedEnableAppends
       /\ last'.op = "tab_enable" => TabEnableAppends]_vars

\* C8, the case: two songs were disabled, applied, and enabled again from the
\* Disabled tab
C8_Witness ==
    /\ last.op = "tab_enable"
    /\ last.ok
    /\ Len(last.sel) = 2
    /\ \E i \in EnabledSongs(songs, current_folder) : songs[i].id \notin Range(last.sel)

\* C9: the list the Shuffler returns is a permutation of the list it was
\* given: same length, every song exactly once.
C9_ShuffleIsPermutation ==
    last.op = "randomize_playlist" =>
        /\ Len(shOutput) = Len(shInput)
        /\ \A i \in DOMAIN shInput :
               Cardinality({j \in DOMAIN shOutput : shOutput[j] = shInput[i]}) = 1

\* two neighbours of a list are of the same series
HasAdjacentSeries(s) ==
    \E i \in 1..(Len(s) - 1) : s[i].series = s[i + 1].series

\* C9, the case: three songs of one series (no conflict-free placement
\* exists) came back in another order
C9_Witness ==
    /\ last.op = "randomize_playlist"
    /\ Len(shInput) = 3
    /\ \A i \in DOMAIN shInput : shInput[i].series = shInput[1].series
    /\ shOutput # shInput
    /\ HasAdjacentSeries(shOutput)

\* C10: when some arrangement of the songs has no two neighbours of the same
\* series, the Shuffler's output has none.
C10_NoAdjacentSeriesWhenAvoidable ==
    (/\ last.op = "randomize_playlist"
     /\ \E p \in Permutations(DOMAIN shInput) :
            ~ HasAdjacentSeries([i \in DOMAIN shInput |-> shInput[p[i]]]))
    => ~ HasAdjacentSeries(shOutput)

\* C11: randomize_songs shuffles exactly the songs of the folder that are not
\* DISABLED (staged value, else persisted) and stages them onto 1..M, one
\* position each; a song staged DISABLED before is staged DISABLED after.
C11_ShuffleStagesActiveSongs ==
    [][last'.op = "randomize" =>
        LET fs == load_folder_songs(songs, playlists, current_folder)
            active == {fs[i].id : i \in {j \in DOMAIN fs :
                          Staged(current_changes, fs[j].id, fs[j].order) # DISABLED}}
        IN  /\ Range(last'.sel) = active
            /\ Len(last'.sel) = Cardinality(active)
            /\ active \subseteq DOMAIN current_changes'
            /\ {current_changes'[id] : id \in active} = 1..Cardinality(active)
            /\ \A id \in DOMAIN current_changes :
                   current_changes[id] = DISABLED =>
                       /\ id \in DOMAIN current_changes'
                       /\ current_changes'[id] = DISABLED
            /\ DOMAIN current_changes' = DOMAIN current_changes \cup active]_vars

\* C11, the case: a shuffle of two active songs beside a song staged DISABLED
C11_Witness ==
    /\ last.op = "randomize"
    /\ Len(last.sel) = 2
    /\ \E id \in DOMAIN current_changes :
           current_changes[id] = DISABLED /\ id \notin Range(last.sel)

\* the songs of the current folder that an apply of the staged map treats as
\* disabled, and those it treats as enabled (indices into songs)
StagedDisabledSongs ==
    {i \in EnabledSongs(songs, current_folder) :
        Staged(current_changes, songs[i].id,
               get_playlist_order(playlists, current_folder, songs[i].id)) = DISABLED}

StagedEnabledSongs == EnabledSongs(songs, current_folder) \ StagedDisabledSongs

\* the order an apply of the staged map gives to song i
StagedOrderOf(i) ==
    Staged(current_changes, songs[i].id,
           get_playlist_order(playlists, current_folder, songs[i].id))

\* C12: an in-place apply moves the file of every song staged DISABLED into
\* the Disabled subdirectory under the file name it had, points the record
\* at it, and renames the files of the remaining songs to their new orders.
C12_DisabledMovedOthersRenumbered ==
    [][(last'.op = "apply" /\ last'.ok /\ last'.arg = 0 /\ StagedDisabledSongs # {}) =>
        /\ \A i \in StagedDisabledSongs :
               LET moved == Path(DisabledFolder(current_folder), songs[i].path.file)
               IN  /\ songs'[i].path = moved
                   /\ songs'[i].name = songs[i].name
                   /\ moved \in DOMAIN files'
                   /\ files'[moved].src = files[songs[i].path].src
        /\ \A i \in StagedEnabledSongs :
               LET renamed == Path(current_folder,
                                   FormatName(StagedOrderOf(i),
                                              OriginalName(songs[i].path.file)))
               IN  /\ songs'[i].path = renamed
                   /\ renamed \in DOMAIN files'
                   /\ files'[renamed].src = files[songs[i].path].src]_vars

\* C13: after an in-place apply of a song staged DISABLED, every order entry
\* of the folder for that song is gone or holds DISABLED, never a positive
\* order.
C13_DisabledEntryNotPositive ==
    [][(last'.op = "apply" /\ last'.ok /\ last'.arg = 0) =>
        \A i \in StagedDisabledSongs :
            LET es == FolderEntries(playlists', current_folder)
            IN  \A k \in DOMAIN es :
                    es[k].id = songs[i].id => es[k].order = DISABLED]_vars

\* an apply step that stopped at a song: the songs of the folder the loop
\* went through before it (indices into songs)
ProcessedBeforeFailure ==
    {i \in EnabledSongs(songs, current_folder) : i < SongIndex(songs, last'.sel[1])}

\* the file name an apply of the staged map gives to the enabled song i
StagedFileName(i) == FormatName(StagedOrderOf(i), OriginalName(songs[i].path.file))

\* C14: when an apply stops at a failing song, every song processed before it
\* is committed in its file, in the persisted record store and in the
\* persisted order store.
C14_ProcessedSongsStayCommitted ==
    [][(last'.op = "apply" /\ ~last'.ok) =>
        \A i \in ProcessedBeforeFailure :
            IF last'.arg = 0
            THEN IF i \in StagedDisabledSongs
                 THEN LET moved == Path(DisabledFolder(current_folder), songs[i].path.file)
                      IN  moved \in DOMAIN files' /\ songs'[i].path = moved
                 ELSE LET renamed == Path(current_folder, StagedFileName(i))
                      IN  /\ renamed \in DOMAIN files'
                          /\ songs'[i].path = renamed
                          /\ songs'[i].name = StagedFileName(i)
                          /\ get_playlist_order(playlists', current_folder, songs[i].id)
                                 = StagedOrderOf(i)
            ELSE i \in StagedEnabledSongs =>
                     \E p \in DOMAIN files' \ DOMAIN files :
                         /\ p.file = StagedFileName(i)
                         /\ \E k \in DOMAIN songs' :
                                /\ songs'[k].path = p
                                /\ songs'[k].name = StagedFileName(i)
                                /\ get_playlist_order(playlists', p.dir, songs'[k].id)
                                       = StagedOrderOf(i)]_vars

\* C15: when an apply stops at a failing song, the staged map holds exactly
\* the entries of the songs not processed yet (the failing song and those
\* after it) and none of a song already applied.
C15_StagedMapKeepsOnlyRemainder ==
    [][(last'.op = "apply" /\ ~last'.ok) =>
        LET done == {songs[i].id : i \in ProcessedBeforeFailure}
        IN  /\ DOMAIN current_changes' = DOMAIN current_changes \ done
            /\ \A id \in DOMAIN current_changes' :
                   current_changes'[id] = current_changes[id]]_vars

\* the path an in-place apply of the staged map gives to song i
StagedPath(i) ==
    IF i \in StagedDisabledSongs
    THEN Path(DisabledFolder(current_folder), songs[i].path.file)
    ELSE Path(current_folder, StagedFileName(i))

\* C16: when the title tag of a song cannot be written during an in-place
\* apply, the song's rename, its record (path, display name) and its order
\* still commit, and the songs after it are applied too.
C16_TagFailureNotFatal ==
    [][(last'.op = "apply" /\ last'.arg = 0 /\ last'.fault = "tag") =>
        LET f == SongIndex(songs, last'.sel[1])
        IN  /\ StagedPath(f) \in DOMAIN files'
            /\ songs'[f].path = StagedPath(f)
            /\ songs'[f].name = StagedFileName(f)
            /\ get_playlist_order(playlists', current_folder, songs[f].id)
                   = StagedOrderOf(f)
            /\ \A j \in EnabledSongs(songs, current_folder) :
                   j > f => songs'[j].path = StagedPath(j)]_vars

\* C17 as claimed: after an in-place apply, the title tag of an enabled
\* song's file is the base name - the file name after the three-digit order
\* prefix - without the extension.
C17_TitleIsBaseName ==
    (last.op = "apply" /\ last.ok /\ last.arg = 0) =>
        \A i \in EnabledSongs(songs, current_folder) :
            songs[i].path \in DOMAIN files =>
                files[songs[i].path].title
                    = SplitExtRoot(OriginalName(songs[i].path.file))

\* C17 as amended: after an in-place apply that ended without error, the
\* file found under an enabled song's path has as title tag its whole file
\* name, three-digit order prefix included, without the extension.
C17_TitleIsFileNameWithPrefix ==
    (last.op = "apply" /\ last.ok /\ last.arg = 0) =>
        \A i \in EnabledSongs(songs, current_folder) :
            songs[i].path \in DOMAIN files =>
                files[songs[i].path].title = SplitExtRoot(songs[i].path.file)

\* C17, the case: an in-place apply renamed a song's file to a prefixed name
\* and wrote its title
C17_Witness ==
    /\ last.op = "apply" /\ last.ok /\ last.arg = 0
    /\ \E i \in EnabledSongs(songs, current_folder) :
           /\ songs[i].path \in DOMAIN files
           /\ OrderPatternMatch(songs[i].path.file).ok
           /\ files[songs[i].path].title # NoTitle

\* C18: an apply that copies to a new directory leaves the source as it was:
\* the records of the folder's songs, the order entries of the folder and
\* the files of the folder (those of songs staged DISABLED included).
C18_CopyLeavesSourceUntouched ==
    [][(last'.op = "apply" /\ last'.arg = 1) =>
        /\ \A i \in EnabledSongs(songs, current_folder) :
               i \in DOMAIN songs' /\ songs'[i] = songs[i]
        /\ LET before == FolderEntries(playlists, current_folder)
               after == FolderEntries(playlists', current_folder)
           IN  \A k \in DOMAIN before : k \in DOMAIN after /\ after[k] = before[k]
        /\ \A p \in DOMAIN files :
               p.dir = current_folder => p \in DOMAIN files' /\ files'[p] = files[p]]_vars

\* no two records share an id
IdsUnique(ss) == \A i, j \in DOMAIN ss : i # j => ss[i].id # ss[j].id

\* C19: no two records ever share an id; an id minted by an apply that copies
\* to a new directory is none of the ids that existed, and the ids minted by
\* one apply differ; no operation changes the id of an existing record
\* (a removal takes the record away, with its id).
C19_IdsUniqueAndImmutable ==
    /\ [](IdsUnique(songs))
    /\ [][/\ last'.op # "remove" =>
               \A i \in DOMAIN songs : i \in DOMAIN songs' /\ songs'[i].id = songs[i].id
          /\ (last'.op = "apply" /\ last'.arg = 1) =>
               /\ \A p \in DOMAIN files' :
                      (p \notin DOMAIN files \/ files'[p].tag # files[p].tag) =>
                          files'[p].tag \notin SongIds(songs)
               /\ \A k \in DOMAIN songs' \ DOMAIN songs :
                      /\ songs'[k].id \notin SongIds(songs)
                      /\ \A j \in DOMAIN songs' \ DOMAIN songs :
                             j # k => songs'[j].id # songs'[k].id]_vars

\* C19, the case: an apply copied two songs to a new directory and minted an
\* id for each
C19_Witness ==
    /\ last.op = "apply" /\ last.arg = 1 /\ last.ok
    /\ Cardinality(EnabledSongs(songs, current_folder)) >= 2
    /\ Len(songs) >= 4

\* "ID" followed by four decimal digits
IsFourDigitId(s) ==
    /\ Len(s) = 6
    /\ s[1] = "I" /\ s[2] = "D"
    /\ \A k \in 3..6 : s[k] \in DigitChars

\* the number the four digits spell
IdNumber(s) ==
    1000 * DigitVal(s[3]) + 100 * DigitVal(s[4]) + 10 * DigitVal(s[5]) + DigitVal(s[6])

\* C20: the allocator, when it returns, returns "ID" followed by four zero-padded digits; the
\* id is not in the id set of the call, and every smaller number's id is in
\* that set, so that it is the smallest free one.
C20_AllocatorReturnsSmallestFree ==
    (idOut # NoCall /\ idOut # NoId) =>
        /\ IsFourDigitId(idOut)
        /\ idOut \notin idSet
        /\ \A m \in 0..(IdNumber(idOut) - 1) :
               \E u \in idSet : IsFourDigitId(u) /\ IdNumber(u) = m

\* C20, the case: the id set {ID0000, ID0001} gives ID0002
C20_Witness ==
    /\ idSet = {<<"I", "D", "0", "0", "0", "0">>, <<"I", "D", "0", "0", "0", "1">>}
    /\ idOut = <<"I", "D", "0", "0", "0", "2">>

\* every id of range(10000) is taken
IdsExhausted(ss) ==
    LET ids == SongIds(ss)
    IN  \A i \in 0..(IdSpace - 1) : FormatId(i) \in ids

\* C21: when all 10,000 ids are taken the allocator gives no id, and a
\* registration attempted in that state leaves the record store and the
\* order store as they were.
C21_ExhaustionAddsNothing ==
    [][(last'.op = "add" /\ IdsExhausted(songs)) =>
           /\ generate_song_id(SongIds(songs)) = NoId
           /\ songs' = songs
           /\ playlists' = playlists]_vars

\* C21, the case: a registration was attempted with all 10,000 ids taken
C21_Witness == last.op = "add" /\ ~ last.ok /\ Len(songs) = IdSpace

\* the order numbers in use in folder F among the songs given to the gap filler
GapUsedOrders ==
    {extract_order_number(gapSongs[k].name) :
        k \in {j \in DOMAIN gapSongs : gapSongs[j].path.dir = <<"F">>}}

\* C22: the gap filler never returns a number that is in use, and it returns
\* the smallest positive integer that is not in use, whatever the set of
\* used numbers and whatever current_max it is given.
C22_GapFillerReturnsSmallestUnused ==
    gapOut # NoOrder =>
        /\ gapOut >= 1
        /\ gapOut \notin GapUsedOrders
        /\ \A m \in 1..(gapOut - 1) : m \in GapUsedOrders

\* the smallest positive integer that is not in used
MinFree(used) ==
    CHOOSE n \in 1..(Cardinality(used) + 1) :
        n \notin used /\ \A m \in 1..(n - 1) : m \in used

\* C23: registering a new file creates its record and its order entry
\* together, and the order is the next gap of the folder: the smallest
\* positive integer that no enabled song of the folder uses.
C23_RegistrationTakesNextGap ==
    [][(last'.op = "add" /\ last'.arg = 1 /\ Len(songs') = Len(songs) + 1) =>
           LET new_song == songs'[Len(songs')]
               used == {get_playlist_order(playlists, current_folder, songs[i].id) :
                           i \in EnabledSongs(songs, current_folder)}
               entries == FolderEntries(playlists', current_folder)
           IN  /\ new_song.path.dir = current_folder
               /\ EntryIndex(entries, new_song.id) # 0
               /\ get_playlist_order(playlists', current_folder, new_song.id)
                      = MinFree(used)]_vars

\* C24: removing a song destroys its record and its order entry in the
\* folder; the other records, the other entries of the folder and every
\* entry of the other folders are as they were.
C24_RemovalDestroysRecordAndEntry ==
    [][last'.op = "remove" =>
           LET song_id == last'.sel[1]
           IN  /\ song_id \in SongIds(songs)
               /\ songs' = SelectSeq(songs, LAMBDA s : s.id # song_id)
               /\ Len(songs') = Len(songs) - 1
               /\ EntryIndex(FolderEntries(playlists', current_folder), song_id) = 0
               /\ Len(playlists') = Len(playlists)
               /\ \A i \in DOMAIN playlists :
                      /\ playlists'[i].folder_path = playlists[i].folder_path
                      /\ playlists'[i].orders =
                             IF playlists[i].folder_path = current_folder
                             THEN SelectSeq(playlists[i].orders,
                                            LAMBDA o : o.id # song_id)
                             ELSE playlists[i].orders]_vars

\* C24, the case: a song that had an order entry was removed from a folder
\* that holds more songs, and another folder has entries too
C24_Witness ==
    /\ last.op = "remove"
    /\ EnabledSongs(songs, current_folder) # {}
    /\ \E i \in DOMAIN playlists :
           playlists[i].folder_path # current_folder /\ playlists[i].orders # <<>>

\* C25: for every name that matches the pattern (three digits, whitespace,
\* remainder), the name formatted from its parsed order and its parsed base
\* name is the name itself.
C25_FormatOfParseIsIdentity ==
    codecOut # <<>> => codecOut = codecName

\* C25 for the names the format can write: three ASCII digits, one space,
\* and a remainder that the pattern takes whole as the base name.  Formatting
\* the parsed order and the parsed base name gives the name back.
C25_FormatOfParseOfFormattedName ==
    (/\ codecOut # <<>>
     /\ \A i \in 1..3 : codecName[i] \in DigitChars
     /\ codecName[4] = " "
     /\ OrderPatternMatch(codecName).g2 = SubSeq(codecName, 5, Len(codecName)))
        => codecOut = codecName

\* C25, the case: a name of three digits, a space and a remainder was
\* parsed and formatted again
C25_Witness ==
    /\ codecName = <<"0", "0", "0", " ", "a">>
    /\ codecOut = codecName

StagingOps == {"set_new_order", "disable", "stage_enable", "randomize"}

\* C26: a staging operation (manual reorder, disable, enable, shuffle)
\* changes the staged map only: the record store, the order store, the file
\* names and the file locations are what they were.
C26_StagingTouchesOnlyStagedMap ==
    [][last'.op \in StagingOps =>
           /\ songs' = songs
           /\ playlists' = playlists
           /\ files' = files]_vars

\* C26, the case: songs were staged DISABLED while an order was staged too
C26_Witness ==
    /\ last.op = "disable"
    /\ \E id \in DOMAIN current_changes : current_changes[id] = DISABLED
    /\ \E id \in DOMAIN current_changes : current_changes[id] >= 1

\* C27: reset empties the staged map and leaves the record store, the order
\* store and the files as they were; after it the effective order of every
\* song of the folder is its persisted order.
C27_ResetDiscardsStagedMap ==
    [][last'.op = "reset" =>
           /\ current_changes' = <<>>
           /\ songs' = songs
           /\ playlists' = playlists
           /\ files' = files
           /\ LET rows == load_folder_songs(songs', playlists', current_folder')
              IN  \A i \in DOMAIN rows :
                      Staged(current_changes', rows[i].id, rows[i].order)
                          = rows[i].order]_vars

\* C27, the case: a staged map was reset in a folder that holds songs
C27_Witness ==
    /\ last.op = "reset"
    /\ EnabledSongs(songs, current_folder) # {}

\* C28: set_new_order leaves every song that is staged DISABLED and is not
\* selected staged DISABLED, and does not count it when it compacts the
\* others: these take the first positions the selected songs leave free.
C28_ManualReorderSkipsDisabled ==
    [][last'.op = "set_new_order" =>
           LET ids == Range(last'.sel)
               disabled_songs == {id \in DOMAIN current_changes :
                                     current_changes[id] = DISABLED /\ id \notin ids}
               fs == load_folder_songs(songs, playlists, current_folder)
               others == {i \in DOMAIN fs : fs[i].id \notin ids \cup disabled_songs}
               claimed == {Staged(current_changes', id, NoOrder) : id \in ids}
           IN  /\ \A id \in disabled_songs :
                      Staged(current_changes', id, NoOrder) = DISABLED
               /\ {Staged(current_changes', fs[i].id, NoOrder) : i \in others}
                      = FirstFree(claimed, Cardinality(others))]_vars

\* C28, the case: a manual reorder ran while a song that is not selected was
\* staged DISABLED, and another song was compacted
C28_Witness ==
    /\ last.op = "set_new_order"
    /\ \E id \in DOMAIN current_changes :
           current_changes[id] = DISABLED /\ id \notin Range(last.sel)
    /\ \E id \in DOMAIN current_changes :
           current_changes[id] >= 1 /\ id \notin Range(last.sel)

\* the folders a record can lie in: the playlist folders and their Disabled
\* folders
RecordFolders == Folders \cup {DisabledFolder(f) : f \in Folders}

\* C29: a record that has no order entry in its folder is read as order 0,
\* by the folder listing and by the single lookup alike, so that the two
\* report the same order for the same song.
C29_OrphanReadAsOrderZero ==
    \A folder \in RecordFolders :
        LET rows == load_folder_songs(songs, playlists, folder)
        IN  \A i \in DOMAIN rows :
                EntryIndex(FolderEntries(playlists, folder), rows[i].id) = 0 =>
                    /\ rows[i].order = 0
                    /\ get_playlist_order(playlists, folder, rows[i].id) = 0
                    /\ rows[i].order
                           = get_playlist_order(playlists, folder, rows[i].id)

\* the result list of the first pass when the turn of song i of series s
\* comes, for one outcome of the random draws
ResultBefore(draws, s, i) ==
    PlaceSeries(FirstPass([k \in 1..Len(shInput) |-> NoSong], SubSeq(draws, 1, s - 1)),
                [songs |-> SubSeq(draws[s].songs, 1, i - 1),
                 points |-> SubSeq(draws[s].points, 1, i - 1)], 1)

\* the slots a song of the series may take: free, no neighbour of the series
OpenSlots(result, series) ==
    {pos \in 0..(Len(result) - 1) :
        ~ IsUsed(result, pos) /\ AdjacentClear(result, pos, series)}

Distance(a, b) == IF a >= b THEN a - b ELSE b - a

\* C30: in the first pass a song whose target slot is occupied is placed in
\* the nearest free slot whose neighbours hold no song of its series,
\* whenever the list has such a slot.
C30_OccupiedTargetProbesOutward ==
    last.op = "randomize_playlist" =>
    \A draws \in DrawsFor(shInput, SeriesKeys(shInput)) :
        \A s \in DOMAIN draws :
            \A i \in DOMAIN draws[s].songs :
                LET before == ResultBefore(draws, s, i)
                    song == draws[s].songs[i]
                    target == draws[s].points[i]
                    after == PlaceNearTarget(before, song, target, 0)
                    open == OpenSlots(before, song.series)
                IN  (IsUsed(before, target) /\ open # {}) =>
                        \E pos \in open :
                            /\ after[pos + 1] = song
                            /\ \A q \in open :
                                   Distance(q, target) >= Distance(pos, target)

\* the songs of the folder that come after the failing song of an apply step
\* in processing order (indices into songs)
AfterFailure ==
    {j \in DOMAIN songs :
        songs[j].path.dir = current_folder /\ j > SongIndex(songs, last'.sel[1])}

\* the order entries a store holds for a song in a folder
EntriesOf(pls, folder, id) ==
    LET es == FolderEntries(pls, folder)
    IN  {es[k].order : k \in {n \in DOMAIN es : es[n].id = id}}

\* C31: when an apply stops at a failing song, every song after it in
\* processing order has the file, the record and the order entry it had
\* before the apply started.
C31_LaterSongsUntouched ==
    [][(last'.op = "apply" /\ ~last'.ok) =>
        \A j \in AfterFailure :
            /\ songs'[j] = songs[j]
            /\ songs[j].path \in DOMAIN files =>
                   /\ songs[j].path \in DOMAIN files'
                   /\ files'[songs[j].path] = files[songs[j].path]
            /\ EntriesOf(playlists', current_folder, songs[j].id)
                   = EntriesOf(playlists, current_folder, songs[j].id)]_vars

\* C32: after an in-place apply that ended without error the staged map is
\* empty and, for every song of the folder that is still enabled, the
\* record's display name, the basename of its path and the order store
\* agree (name = three-digit order, a space, the base name the file had; path
\* in the folder); with an empty staged map an apply takes no step.
C32_ApplyReturnsToClean ==
    [][/\ (last'.op = "apply" /\ last'.ok /\ last'.arg = 0) =>
           /\ current_changes' = <<>>
           /\ \A i \in EnabledSongs(songs', current_folder) :
                  LET order == get_playlist_order(playlists', current_folder, songs[i].id)
                  IN  /\ songs'[i].name
                             = FormatName(order, OriginalName(songs[i].path.file))
                      /\ songs'[i].path = Path(current_folder, songs'[i].name)
       /\ current_changes = <<>> => last'.op # "apply"]_vars

\* C32, the case: an in-place apply renamed the songs of a folder
C32_Witness ==
    /\ last.op = "apply" /\ last.ok /\ last.arg = 0
    /\ Cardinality(EnabledSongs(songs, current_folder)) >= 2
    /\ \E i \in EnabledSongs(songs, current_folder) :
           get_playlist_order(playlists, current_folder, songs[i].id) >= 2

\* the file contents (by origin) found in a file system
Contents(fsys) == {fsys[p].src : p \in DOMAIN fsys}

\* C33: an in-place apply that ended without error destroys no song's file:
\* every file content of before is still there, the number of files is the
\* same, and afterwards distinct records have distinct paths.
C33_ApplyNeverOverwrites ==
    [][(last'.op = "apply" /\ last'.ok /\ last'.arg = 0) =>
        /\ Contents(files) \subseteq Contents(files')
        /\ Cardinality(DOMAIN files') = Cardinality(DOMAIN files)
        /\ \A i, j \in DOMAIN songs' :
               i # j => songs'[i].path # songs'[j].path]_vars

\* C34: in every reachable state every order entry's song id is the id of a
\* song record.
C34_OrderEntriesHaveRecords ==
    \A k \in DOMAIN playlists :
        \A n \in DOMAIN playlists[k].orders :
            playlists[k].orders[n].id \in SongIds(songs)

\* C35: every song record located directly in a folder (not in its Disabled
\* subfolder) has an order entry in that folder.
C35_RecordsHaveOrderEntries ==
    \A i \in DOMAIN songs :
        Len(songs[i].path.dir) = 1 =>
            EntriesOf(playlists, songs[i].path.dir, songs[i].id) # {}

\* the order entries of a folder, as a set of [id, order]
EntrySet(pls, folder) == Range(FolderEntries(pls, folder))

\* the records of a folder and of the folders below it
RecordsUnder(ss, folder) == {r \in Range(ss) : IsUnder(r.path.dir, folder)}

\* C36: deleting a playlist removes the records located in the folder and in
\* its Disabled subfolder and the folder's order entries, and leaves the
\* records and the order entries of every other folder as they were.
C36_DeleteRemovesOnlyThatFolder ==
    [][last'.op = "delete" =>
        /\ RecordsUnder(songs', current_folder) = {}
        /\ EntrySet(playlists', current_folder) = {}
        /\ Range(songs') = Range(songs) \ RecordsUnder(songs, current_folder)
        /\ \A folder \in LibraryFolders \ {current_folder} :
               EntrySet(playlists', folder) = EntrySet(playlists, folder)]_vars

\* the songs of the folder an apply copies, in processing order
CopiedSongs == SelectSeq([i \in DOMAIN songs |-> i], LAMBDA i : i \in StagedEnabledSongs)

\* the number of order entries a store holds for a song in a folder
EntryCount(pls, folder, id) ==
    LET es == FolderEntries(pls, folder)
    IN  Cardinality({n \in DOMAIN es : es[n].id = id})

\* C37: an apply that copies to a new directory adds exactly one record and
\* one order entry per song of the folder that is not staged DISABLED: the
\* record is in the target folder, has a fresh id, the source song's series
\* and weight and the name format(staged order, base name), and its order
\* entry in the target folder is the staged order; a song staged DISABLED
\* gets no copy.
C37_CopyCreatesOneRecordPerSong ==
    [][(last'.op = "apply" /\ last'.ok /\ last'.arg = 1) =>
        /\ Len(songs') = Len(songs) + Len(CopiedSongs)
        /\ \A k \in DOMAIN songs : songs'[k] = songs[k]
        /\ \A n \in DOMAIN CopiedSongs :
               LET src == songs[CopiedSongs[n]]
                   new == songs'[Len(songs) + n]
               IN  /\ new.id \notin SongIds(songs)
                   /\ \A m \in DOMAIN CopiedSongs :
                          m # n => songs'[Len(songs) + m].id # new.id
                   /\ new.series = src.series
                   /\ new.weight = src.weight
                   /\ new.name = StagedFileName(CopiedSongs[n])
                   /\ new.path = Path(current_folder', new.name)
                   /\ EntryCount(playlists', current_folder', new.id) = 1
                   /\ get_playlist_order(playlists', current_folder', new.id)
                          = StagedOrderOf(CopiedSongs[n])]_vars

\* C37, the case: an apply copied a folder to another one and left a song
\* staged DISABLED behind
C37_Witness ==
    /\ last.op = "apply" /\ last.ok /\ last.arg = 1
    /\ current_folder = <<"G">>
    /\ EnabledSongs(songs, <<"G">>) # {}
    /\ Cardinality(EnabledSongs(songs, <<"F">>))
           > Cardinality(EnabledSongs(songs, <<"G">>))

\* at most one playlist entry per folder, at most one order entry per
\* (folder, song id)
WellFormed(pls) ==
    /\ \A i, j \in DOMAIN pls : i # j => pls[i].folder_path # pls[j].folder_path
    /\ \A i \in DOMAIN pls :
           \A m, n \in DOMAIN pls[i].orders :
               m # n => pls[i].orders[m].id # pls[i].orders[n].id

\* the orders an update may write
UpdateOrders == {DISABLED, 2}

\* the ids an update may name: those of the records and one of no record
UpdateIds == SongIds(songs) \cup {FormatId(IdSpace - 1)}

\* the operations that write the order store, and the start: every store
\* that is reached is the store of a state one of them left
StoreOps == {"init", "add", "remove", "apply", "tab_enable", "delete", "register"}

\* every order entry of a store, as <<folder, song id, order>>
AllEntries(pls) ==
    UNION {{<<pls[i].folder_path, pls[i].orders[n].id, pls[i].orders[n].order>> :
               n \in DOMAIN pls[i].orders} : i \in DOMAIN pls}

\* C38: in every reachable state the order store has at most one playlist
\* entry per folder and at most one order entry per (folder, song id), and
\* an update of one (folder, song id) order keeps it so, sets that order and
\* changes no other entry.
C38_OrderStoreWellFormed ==
    /\ WellFormed(playlists)
    /\ last.op \in StoreOps =>
       LET before == AllEntries(playlists)
       IN  \A folder \in LibraryFolders, id \in UpdateIds, order \in UpdateOrders :
               LET new == update_playlist_order(playlists, folder, id, order)
                   after == AllEntries(new)
               IN  /\ WellFormed(new)
                   /\ <<folder, id, order>> \in after
                   /\ {e \in after : <<e[1], e[2]>> # <<folder, id>>}
                          = {e \in before : <<e[1], e[2]>> # <<folder, id>>}

\* C38, the case: an apply wrote the orders of a folder into a store that
\* holds two playlists
C38_Witness ==
    /\ last.op = "apply" /\ last.ok
    /\ Len(playlists) = 2
    /\ \E i \in DOMAIN playlists : Len(playlists[i].orders) >= 2

\* C39: for every order o >= 1 and base name b, the name apply writes for
\* (o, b) matches the naming pattern with order o and base name b, so that
\* formatting it again with the same order gives the same name.
C39_ParseOfFormatIsIdentity ==
    last.op = "format" =>
        /\ OrderPatternMatch(codecOut).ok
        /\ extract_order_number(codecOut) = last.arg
        /\ OriginalName(codecOut) = codecName
        /\ FormatName(last.arg, OriginalName(codecOut)) = codecOut

\* C40: registering a file path that a record already has adds no record,
\* mints no id (no file's embedded id changes) and changes no order entry.
C40_RegistrationIdempotentPerPath ==
    [][(last'.op = "register" /\ last'.arg = 1) =>
        /\ songs' = songs
        /\ playlists' = playlists
        /\ files' = files]_vars

\* C40, the case: a path that a record has was registered again, in a store
\* that has room for another record
C40_Witness ==
    /\ last.op = "register" /\ last.arg = 1
    /\ songs # <<>>
    /\ Len(songs) < MaxRecords
====
